---- MODULE Spec2Model ----
(***************************************************************************)
(* A model of "The Judge & The Curve" video repository: the configuration  *)
(* tables (src/src/config.py), the seeded data generator and its CSV       *)
(* persistence (src/src/utils/data_generator.py), the colour utilities     *)
(* (src/src/utils/color_utils.py), the stub generation script              *)
(* (src/scripts/generate_manim_stubs.py) and the scene scripts             *)
(* (src/videos/scenes).                                                    *)
(*                                                                         *)
(* The repository is a set of independent entry points, so the module      *)
(* holds one specification per entry point.  All of them share the         *)
(* variables below; a specification leaves the variables of the other      *)
(* entry points at their initial values.                                   *)
(*                                                                         *)
(* Numbers.  Python floats are modelled as scaled integers; the unit is    *)
(* stated at each definition.                                              *)
(***************************************************************************)
EXTENDS Integers, Sequences, FiniteSets, TLC

VARIABLES
    gen_calls,        \* data generator: the calls made so far, with their results
    t,                \* timeline: the playhead, in seconds from the video start
    scene_i,          \* timeline: index into ALL_SCENES of the scene being played
    played,           \* timeline: seconds of video actually shown so far
    net_in,           \* network generator: the arguments of the call
    net_out,          \* network generator: the result of the call ("pending" before it)
    hex_in,           \* hex_to_rgb: the argument, a string as a sequence of characters
    hex_out,          \* hex_to_rgb: the result of the call ("pending" before it)
    fs_dirs,          \* file system: the directories that exist
    fs_files,         \* file system: path -> [exists, lines]
    csv_points,       \* CSV: the list of DataPoints the caller holds
    csv_written,      \* CSV: path -> whether save_data_to_csv has written csv_points there
    csv_last,         \* CSV: the last call of save_data_to_csv / load_data_from_csv
    bar_points,       \* error bars: the points argument
    bar_regression,   \* error bars: the regression argument
    bar_out,          \* error bars: the result of create_error_bars ("pending" before it)
    stub_env,         \* stub script: how the two subprocesses end, chosen by the environment
    stub_pc,          \* stub script: the position of main
    stub_i,           \* stub script: index into the submodules list
    stub_files,       \* stub script: the stub files that exist
    stub_result,      \* stub script: what main returned or raised
    cmp_pc,           \* composition: the position of JudgeCurveComplete.construct
    cmp_duration,     \* composition: tracker.duration of the running voiceover, in ms
    cmp_i,            \* composition: the number of steps the running section has issued
    cmp_elapsed,      \* composition: the run time of the steps issued so far, in ms
    cmp_screen,       \* composition: the mobjects on the screen
    cmp_rendered,     \* composition: the sections rendered to their end, in order
    syn_pc,           \* synthesis scene: the position of SynthesisScene.construct
    syn_duration,     \* synthesis scene: tracker.duration of the voiceover, in ms
    syn_row,          \* synthesis scene: the row of the wire grid being filled
    syn_col,          \* synthesis scene: the column of the wire grid being filled
    syn_wires,        \* synthesis scene: network_wires, the wires (neurons) created
    syn_connections,  \* synthesis scene: the number of connection curves created
    syn_steps,        \* synthesis scene: the play and wait steps issued, with run times
    syn_screen,       \* synthesis scene: the mobjects on the screen
    fit_points,       \* regression fit: the points argument
    fit_degree,       \* regression fit: the degree argument (3 when omitted)
    fit_out,          \* regression fit: the result of the fit call ("pending" before it)
    pred_line,        \* predict: the RegressionLine predict is called on
    pred_x,           \* predict: the argument x
    pred_out,         \* predict: the result of the call ("pending" before it)
    mix_in,           \* interpolate_color: the arguments color1, color2 and t
    mix_out,          \* interpolate_color: the result of the call ("pending" before it)
    fx_in,            \* effects: the mobject and the arguments of the effect call
    fx_out,           \* effects: the group the effect returned ("pending" before it)
    scl_pc,           \* scale scene: the position of ContinuousScaleScene.construct
    scl_duration,     \* scale scene: tracker.duration of the voiceover, in ms
    scl_steps,        \* scale scene: the play and wait steps issued, with run times in ms
    cas_pc,           \* CascadeText: "new" before __init__, "ready" after, "running" once interpolated
    cas_lines,        \* CascadeText: the opacity of each text line
    cas_alpha,        \* CascadeText: the alpha of the last interpolate_mobject call
    pls_pc,           \* screen pulse: the position of the caller
    pls_in,           \* screen pulse: the arguments pulse_count and duration (ms)
    pls_edges,        \* screen pulse: the opacity of each edge of the group
    pls_steps,        \* screen pulse: the animations played, with run times in ms
    pls_shown,        \* screen pulse: whether the edges are among the scene's mobjects
    lin_pc,           \* linear scene: the position of LinearRegressionScene._run_visual_sequence
    lin_points,       \* linear scene: the data points loaded or generated
    lin_regression,   \* linear scene: the fitted regression line
    lin_created,      \* linear scene: the indices of the error bars created, in order
    lin_label,        \* linear scene: the index of the bar labelled RESIDUAL (ERROR), 0 if none
    lin_line,         \* linear scene: the start and end of the line mobject
    lin_offsets,      \* linear scene: the slope offsets the wiggle has applied, in thousandths
    lin_screen,       \* linear scene: the mobjects on the screen
    var_pc,           \* section 1 variants: position
    var_duration,     \* the total_duration both sequences get
    var_steps,        \* steps issued so far, per sequence
    var_status,       \* running, returned or the exception, per sequence
    pal_module,       \* palette reads: the module running
    pal_last,         \* the attribute name read last
    pal_seen,         \* the colour values read so far
    pal_status,       \* ok or AttributeError
    sec_pc,           \* sections: construct, sequence, returned or the exception
    sec_seq,          \* the sequence running and its inputs
    sec_i,            \* number of steps issued
    sec_screen,       \* mobjects in the scene
    sec_added         \* mobjects the sequence has added

genVars == <<gen_calls>>
timeVars == <<t, scene_i, played>>
netVars == <<net_in, net_out>>
hexVars == <<hex_in, hex_out>>
csvVars == <<fs_dirs, fs_files, csv_points, csv_written, csv_last>>
barVars == <<bar_points, bar_regression, bar_out>>
stubVars == <<stub_env, stub_pc, stub_i, stub_files, stub_result>>
cmpVars == <<cmp_pc, cmp_duration, cmp_i, cmp_elapsed, cmp_screen, cmp_rendered>>
synVars == <<syn_pc, syn_duration, syn_row, syn_col, syn_wires, syn_connections,
            syn_steps, syn_screen>>
fitVars == <<fit_points, fit_degree, fit_out>>
predVars == <<pred_line, pred_x, pred_out>>
mixVars == <<mix_in, mix_out>>
fxVars == <<fx_in, fx_out>>
sclVars == <<scl_pc, scl_duration, scl_steps>>
casVars == <<cas_pc, cas_lines, cas_alpha>>
plsVars == <<pls_pc, pls_in, pls_edges, pls_steps, pls_shown>>
linVars == <<lin_pc, lin_points, lin_regression, lin_created, lin_label, lin_line, lin_offsets, lin_screen>>
varVars == <<var_pc, var_duration, var_steps, var_status>>
palVars == <<pal_module, pal_last, pal_seen, pal_status>>
secVars == <<sec_pc, sec_seq, sec_i, sec_screen, sec_added>>
vars == <<gen_calls, t, scene_i, played, net_in, net_out, hex_in, hex_out,
          fs_dirs, fs_files, csv_points, csv_written, csv_last,
          bar_points, bar_regression, bar_out,
          stub_env, stub_pc, stub_i, stub_files, stub_result,
          cmp_pc, cmp_duration, cmp_i, cmp_elapsed, cmp_screen, cmp_rendered,
          syn_pc, syn_duration, syn_row, syn_col, syn_wires, syn_connections,
          syn_steps, syn_screen,
          fit_points, fit_degree, fit_out,
          pred_line, pred_x, pred_out,
          mix_in, mix_out,
          fx_in, fx_out,
          scl_pc, scl_duration, scl_steps,
          cas_pc, cas_lines, cas_alpha,
          pls_pc, pls_in, pls_edges, pls_steps, pls_shown,
          lin_pc, lin_points, lin_regression, lin_created, lin_label, lin_line, lin_offsets, lin_screen,
          var_pc, var_duration, var_steps, var_status,
          pal_module, pal_last, pal_seen, pal_status,
          sec_pc, sec_seq, sec_i, sec_screen, sec_added>>

\* Python's None where an integer is expected (seeds are never negative).
None == 0 - 1

Min(a, b) == IF a <= b THEN a ELSE b
Max(a, b) == IF a >= b THEN a ELSE b

(***************************************************************************)
(* Initial values of every group of variables.                             *)
(***************************************************************************)
GenIdle == gen_calls = <<>>
TimeIdle == t = 0 /\ scene_i = 1 /\ played = 0
NoNetwork == [status |-> "pending", nodes |-> <<>>, connections |-> {}, layer_sizes |-> <<>>]
NetIdle ==
    /\ net_in = [has_layer_sizes |-> FALSE, layer_sizes |-> <<>>, min_nodes |-> 0]
    /\ net_out = NoNetwork

NoRgb == [status |-> "pending", rgb |-> <<>>]
HexIdle == hex_in = <<>> /\ hex_out = NoRgb

\* The paths the CSV functions are called with: <<parent directory, file name>>.
Paths == {<<"data", "linear.csv">>, <<"tmp", "test.csv">>}
NoFile == [exists |-> FALSE, lines |-> <<>>]
NoCall ==
    [op |-> "none", path |-> <<"", "">>, status |-> "none", points |-> <<>>,
     existed |-> FALSE, dir_existed |-> FALSE]
CsvIdle ==
    /\ fs_dirs = {}
    /\ fs_files = [p \in Paths |-> NoFile]
    /\ csv_points = <<>>
    /\ csv_written = [p \in Paths |-> FALSE]
    /\ csv_last = NoCall

NoBars == [status |-> "pending", bars |-> <<>>, residuals |-> <<>>]
BarIdle ==
    /\ bar_points = <<>>
    /\ bar_regression = [line_type |-> "linear", coefficients |-> <<>>]
    /\ bar_out = NoBars

Running == [status |-> "running", value |-> 0, exception |-> ""]
StubIdle ==
    /\ stub_env = [cli |-> "ok", probe |-> "found"]
    /\ stub_pc = "main"
    /\ stub_i = 1
    /\ stub_files = {}
    /\ stub_result = Running

CmpIdle ==
    /\ cmp_pc = "construct"
    /\ cmp_duration = 0
    /\ cmp_i = 0
    /\ cmp_elapsed = 0
    /\ cmp_screen = {}
    /\ cmp_rendered = <<>>

SynIdle ==
    /\ syn_pc = "construct"
    /\ syn_duration = 0
    /\ syn_row = 0
    /\ syn_col = 0
    /\ syn_wires = <<>>
    /\ syn_connections = 0
    /\ syn_steps = <<>>
    /\ syn_screen = {}

NoLine == [op |-> "none", status |-> "pending", line_type |-> "", coefficients |-> <<>>]
FitIdle == fit_points = <<>> /\ fit_degree = 0 /\ fit_out = NoLine

NoPrediction == [status |-> "pending", y |-> 0]
PredIdle ==
    /\ pred_line = [line_type |-> "linear", coefficients |-> <<>>]
    /\ pred_x = 0
    /\ pred_out = NoPrediction

NoColor == [status |-> "pending", hex |-> <<>>]
MixIdle == mix_in = [color1 |-> <<>>, color2 |-> <<>>, t |-> 0] /\ mix_out = NoColor

NoGroup == [status |-> "pending", op |-> "none", members |-> <<>>]
NewMobject(color, opacity) ==
    [id |-> 1, color |-> color, opacity |-> opacity, scale |-> 300, shift |-> <<0, 0>>]
FxIdle ==
    /\ fx_in = [mobject |-> NewMobject("#FFFFFF", 300), offset |-> 4, glow_factor |-> 450,
                opacity |-> 90, color |-> ""]
    /\ fx_out = NoGroup

SclIdle == scl_pc = "construct" /\ scl_duration = 0 /\ scl_steps = <<>>

CasIdle == cas_pc = "new" /\ cas_lines = <<>> /\ cas_alpha = 0

PlsIdle ==
    /\ pls_pc = "new"
    /\ pls_in = [pulse_count |-> 3, duration |-> 300]
    /\ pls_edges = <<>>
    /\ pls_steps = <<>>
    /\ pls_shown = FALSE

LinIdle ==
    /\ lin_pc = "construct"
    /\ lin_points = <<>>
    /\ lin_regression = NoLine
    /\ lin_created = <<>>
    /\ lin_label = 0
    /\ lin_line = <<>>
    /\ lin_offsets = <<>>
    /\ lin_screen = {}

VarIdle ==
    /\ var_pc = "construct"
    /\ var_duration = 0
    /\ var_steps = [v \in {"standalone", "in_scene"} |-> <<>>]
    /\ var_status = [v \in {"standalone", "in_scene"} |-> "running"]

PalIdle ==
    /\ pal_module = ""
    /\ pal_last = ""
    /\ pal_seen = {}
    /\ pal_status = "ok"

SecIdle ==
    /\ sec_pc = "construct"
    /\ sec_seq = [name |-> "", total_duration |-> 0, n |-> 0, outlier |-> 0]
    /\ sec_i = 0
    /\ sec_screen = {}
    /\ sec_added = {}

\* Every group of variables but group g is at its initial value.
IdleBut(g) ==
    /\ IF g = "gen" THEN TRUE ELSE GenIdle
    /\ IF g = "time" THEN TRUE ELSE TimeIdle
    /\ IF g = "net" THEN TRUE ELSE NetIdle
    /\ IF g = "hex" THEN TRUE ELSE HexIdle
    /\ IF g = "csv" THEN TRUE ELSE CsvIdle
    /\ IF g = "bar" THEN TRUE ELSE BarIdle
    /\ IF g = "stub" THEN TRUE ELSE StubIdle
    /\ IF g = "cmp" THEN TRUE ELSE CmpIdle
    /\ IF g = "syn" THEN TRUE ELSE SynIdle
    /\ IF g = "fit" THEN TRUE ELSE FitIdle
    /\ IF g = "pred" THEN TRUE ELSE PredIdle
    /\ IF g = "mix" THEN TRUE ELSE MixIdle
    /\ IF g = "fx" THEN TRUE ELSE FxIdle
    /\ IF g = "scl" THEN TRUE ELSE SclIdle
    /\ IF g = "cas" THEN TRUE ELSE CasIdle
    /\ IF g = "pls" THEN TRUE ELSE PlsIdle
    /\ IF g = "lin" THEN TRUE ELSE LinIdle
    /\ IF g = "var" THEN TRUE ELSE VarIdle
    /\ IF g = "pal" THEN TRUE ELSE PalIdle
    /\ IF g = "sec" THEN TRUE ELSE SecIdle

\* A step of group g leaves every other group unchanged.
Frame(g) ==
    /\ IF g = "gen" THEN TRUE ELSE UNCHANGED genVars
    /\ IF g = "time" THEN TRUE ELSE UNCHANGED timeVars
    /\ IF g = "net" THEN TRUE ELSE UNCHANGED netVars
    /\ IF g = "hex" THEN TRUE ELSE UNCHANGED hexVars
    /\ IF g = "csv" THEN TRUE ELSE UNCHANGED csvVars
    /\ IF g = "bar" THEN TRUE ELSE UNCHANGED barVars
    /\ IF g = "stub" THEN TRUE ELSE UNCHANGED stubVars
    /\ IF g = "cmp" THEN TRUE ELSE UNCHANGED cmpVars
    /\ IF g = "syn" THEN TRUE ELSE UNCHANGED synVars
    /\ IF g = "fit" THEN TRUE ELSE UNCHANGED fitVars
    /\ IF g = "pred" THEN TRUE ELSE UNCHANGED predVars
    /\ IF g = "mix" THEN TRUE ELSE UNCHANGED mixVars
    /\ IF g = "fx" THEN TRUE ELSE UNCHANGED fxVars
    /\ IF g = "scl" THEN TRUE ELSE UNCHANGED sclVars
    /\ IF g = "cas" THEN TRUE ELSE UNCHANGED casVars
    /\ IF g = "pls" THEN TRUE ELSE UNCHANGED plsVars
    /\ IF g = "lin" THEN TRUE ELSE UNCHANGED linVars
    /\ IF g = "var" THEN TRUE ELSE UNCHANGED varVars
    /\ IF g = "pal" THEN TRUE ELSE UNCHANGED palVars
    /\ IF g = "sec" THEN TRUE ELSE UNCHANGED secVars

(***************************************************************************)
(* src/src/config.py: data generation constants.                           *)
(* LINEAR_SLOPE, LINEAR_INTERCEPT and LINEAR_NOISE_STD are in hundredths   *)
(* (1.05, 1.0, 0.3).                                                       *)
(***************************************************************************)
DATA_SEED == 42
LINEAR_DATA_POINTS == 20
LINEAR_SLOPE == 105
LINEAR_INTERCEPT == 100
LINEAR_NOISE_STD == 30
NONLINEAR_DATA_POINTS == 25

(***************************************************************************)
(* The data generator.                                                     *)
(*                                                                         *)
(* numpy's Generator is modelled as a deterministic stream of states       *)
(* produced from the seed by a small linear congruential step; a standard  *)
(* normal draw is a function of the stream state, in whole standard        *)
(* deviations -2..2.  np.random.default_rng(None) seeds itself from the    *)
(* operating system's entropy, which is the `entropy` input of each call.  *)
(***************************************************************************)
MaxPoints == 3
MaxCalls == 2

Seeds == {None, 7, DATA_SEED}
Entropy == {11, 23}

\* The seed with which the generator is created when the fallback to
\* DATA_SEED is forgotten: numpy then draws the seed from OS entropy.
GetRngUnseeded(seed, entropy) == IF seed # None THEN seed ELSE entropy

\* _get_rng(seed): np.random.default_rng(seed if seed is not None else DATA_SEED)
GetRng(seed, entropy) == IF seed # None THEN seed ELSE DATA_SEED

RECURSIVE RngState(_, _)
\* The generator's state after k draws, from its initial seed.
RngState(seed, k) ==
    IF k = 0 THEN seed % 64
    ELSE (RngState(seed, k - 1) * 5 + 3) % 64

\* The k-th draw (k >= 1) of rng.normal(0, std, n): std times a standard
\* normal sample.
Normal(seed, k, std) == std * ((RngState(seed, k) % 5) - 2)

\* np.linspace(lo, hi, n)[i], i in 1..n, in the unit of lo and hi.
Linspace(lo, hi, n, i) ==
    IF n = 1 THEN lo ELSE lo + ((i - 1) * (hi - lo)) \div (n - 1)

\* generate_linear_data.  x in hundredths, y in ten-thousandths (slope in
\* hundredths times x in hundredths).  The first n draws jitter x, the
\* next n are the noise on y.
generate_linear_data(n_points, slope, intercept, noise_std, seed, entropy) ==
    LET rng == GetRng(seed, entropy)
        x_values == [i \in 1..n_points |->
                        Linspace(100, 1000, n_points, i) + Normal(rng, i, 10)]
        noise == [i \in 1..n_points |-> Normal(rng, n_points + i, noise_std)]
        y_values == [i \in 1..n_points |->
                        slope * x_values[i] + intercept * 100 + noise[i] * 100]
    IN  [i \in 1..n_points |-> [x |-> x_values[i], y |-> y_values[i]]]

\* np.tanh, argument in hundredths, result in thousandths (piecewise linear).
Tanh(z) == IF z <= -200 THEN -1000 ELSE IF z >= 200 THEN 1000 ELSE z * 5

\* np.sin, argument in hundredths of a radian, result in thousandths
\* (a triangle wave of period 628).
Sin(z) ==
    LET r == z % 628
    IN  IF r < 157 THEN (r * 1000) \div 157
        ELSE IF r < 471 THEN ((314 - r) * 1000) \div 157
        ELSE ((r - 628) * 1000) \div 157

\* The S-curve's base value at x (hundredths), in thousandths: rise,
\* plateau, crash.
ScurveBase(x) ==
    IF x < 300 THEN 500 + Tanh(((x - 150) * 3) \div 2) \div 2
    ELSE IF x < 700 THEN 1000 + Sin(x * 2) \div 10
    ELSE 1000 - (3 * (x - 700) * (x - 700)) \div 100

\* An S-curve generator that leaves the last point out.
GenerateScurveDropLast(n_points, seed, entropy) ==
    LET rng == GetRng(seed, entropy)
    IN  [i \in 1..(n_points - 1) |->
            [x |-> Linspace(0, 1000, n_points, i),
             y |-> ScurveBase(Linspace(0, 1000, n_points, i)) * 5 + 2000
                   + Normal(rng, i, 200)]]

\* generate_scurve_data.  x in hundredths, y in thousandths.
generate_scurve_data(n_points, seed, entropy) ==
    LET rng == GetRng(seed, entropy)
        x_values == [i \in 1..n_points |-> Linspace(0, 1000, n_points, i)]
        y_values == [i \in 1..n_points |->
                        ScurveBase(x_values[i]) * 5 + 2000 + Normal(rng, i, 200)]
    IN  [i \in 1..n_points |-> [x |-> x_values[i], y |-> y_values[i]]]

\* n_points is LINEAR_DATA_POINTS / NONLINEAR_DATA_POINTS when left out.
LinearArgs ==
    [n_points : (0..MaxPoints) \cup {LINEAR_DATA_POINTS}, slope : {LINEAR_SLOPE}, intercept : {LINEAR_INTERCEPT},
     noise_std : {0, LINEAR_NOISE_STD}, seed : Seeds]

ScurveArgs == [n_points : (0..MaxPoints) \cup {NONLINEAR_DATA_POINTS}, seed : Seeds]

\* A call of generate_linear_data, recorded with its arguments and result.
CallGenerateLinear ==
    /\ Len(gen_calls) < MaxCalls
    /\ \E a \in LinearArgs, entropy \in Entropy :
          gen_calls' = Append(gen_calls,
              [fn |-> "linear", args |-> a,
               out |-> generate_linear_data(a.n_points, a.slope, a.intercept,
                                            a.noise_std, a.seed, entropy)])

\* A call of generate_scurve_data, recorded with its arguments and result.
CallGenerateScurve ==
    /\ Len(gen_calls) < MaxCalls
    /\ \E a \in ScurveArgs, entropy \in Entropy :
          gen_calls' = Append(gen_calls,
              [fn |-> "scurve", args |-> a,
               out |-> generate_scurve_data(a.n_points, a.seed, entropy)])

GenInit == IdleBut("none")
GenNext ==
    \/ CallGenerateLinear /\ Frame("gen")
    \/ CallGenerateScurve /\ Frame("gen")
SpecGen == GenInit /\ [][GenNext]_vars

\* C1: seeded generators are deterministic: any two calls of the same
\* generator with equal arguments returned identical point sequences.
C1_SeededDeterministic ==
    \A i, j \in DOMAIN gen_calls :
        (gen_calls[i].fn = gen_calls[j].fn /\ gen_calls[i].args = gen_calls[j].args)
            => gen_calls[i].out = gen_calls[j].out

\* Two calls with equal arguments (the seed left to its default among them)
\* have been made and returned points.
C1_Witness ==
    /\ Len(gen_calls) >= 2
    /\ gen_calls[1].fn = gen_calls[2].fn
    /\ gen_calls[1].args = gen_calls[2].args
    /\ gen_calls[1].args.seed = None
    /\ Len(gen_calls[1].out) >= 2

\* C18: generate_linear_data and generate_scurve_data return exactly
\* n_points DataPoints for every n_points >= 0: 20 and 25 when n_points is
\* left to its default.
C18_ExactlyNPoints ==
    \A i \in DOMAIN gen_calls :
        /\ Len(gen_calls[i].out) = gen_calls[i].args.n_points
        /\ (gen_calls[i].fn = "linear" /\ gen_calls[i].args.n_points = LINEAR_DATA_POINTS)
              => Len(gen_calls[i].out) = 20
        /\ (gen_calls[i].fn = "scurve" /\ gen_calls[i].args.n_points = NONLINEAR_DATA_POINTS)
              => Len(gen_calls[i].out) = 25

\* Each generator was called once with its default n_points; the linear
\* one returned 20 points and the S-curve one 25.
C18_Witness ==
    /\ Len(gen_calls) = 2
    /\ gen_calls[1].fn = "linear" /\ gen_calls[1].args.n_points = LINEAR_DATA_POINTS
    /\ Len(gen_calls[1].out) = 20
    /\ gen_calls[2].fn = "scurve" /\ gen_calls[2].args.n_points = NONLINEAR_DATA_POINTS
    /\ Len(gen_calls[2].out) = 25

(***************************************************************************)
(* The scene timing table of src/src/config.py, and the walk of the        *)
(* playhead through it: each scene is played from its start_time to its    *)
(* end_time, one second at a time, and then the next scene of ALL_SCENES   *)
(* starts at its own start_time.  Times are in seconds.                    *)
(***************************************************************************)
SCENE_HALLUCINATION == [name |-> "hallucination", start_time |-> 0, end_time |-> 25]
SCENE_CONTINUOUS_SCALE == [name |-> "continuous_scale", start_time |-> 25, end_time |-> 50]
SCENE_LINEAR_REGRESSION == [name |-> "linear_regression", start_time |-> 50, end_time |-> 75]
SCENE_NONLINEAR_REGRESSION ==
    [name |-> "nonlinear_regression", start_time |-> 75, end_time |-> 100]
SCENE_SYNTHESIS == [name |-> "synthesis", start_time |-> 100, end_time |-> 120]

\* A timing table whose second scene starts a second late (a gap at 25..26).
ALL_SCENES_Gap ==
    <<SCENE_HALLUCINATION,
      [name |-> "continuous_scale", start_time |-> 26, end_time |-> 50],
      SCENE_LINEAR_REGRESSION, SCENE_NONLINEAR_REGRESSION, SCENE_SYNTHESIS>>

ALL_SCENES ==
    <<SCENE_HALLUCINATION, SCENE_CONTINUOUS_SCALE, SCENE_LINEAR_REGRESSION,
      SCENE_NONLINEAR_REGRESSION, SCENE_SYNTHESIS>>

VIDEO_TOTAL_DURATION == 120

\* SceneConfig.duration
SceneDuration(scene) == scene.end_time - scene.start_time

RECURSIVE SumDurations(_)
\* sum(scene.duration for scene in scenes)
SumDurations(scenes) ==
    IF scenes = <<>> THEN 0
    ELSE SceneDuration(Head(scenes)) + SumDurations(Tail(scenes))

\* One second of the current scene is shown.
PlaySecond ==
    /\ t < ALL_SCENES[scene_i].end_time
    /\ t' = t + 1
    /\ played' = played + 1
    /\ UNCHANGED scene_i

\* The current scene has reached its end_time: the next one starts at its
\* own start_time.
StartNextScene ==
    /\ t >= ALL_SCENES[scene_i].end_time
    /\ scene_i < Len(ALL_SCENES)
    /\ scene_i' = scene_i + 1
    /\ t' = ALL_SCENES[scene_i + 1].start_time
    /\ UNCHANGED played

TimelineInit == IdleBut("none")
TimelineNext ==
    \/ PlaySecond /\ Frame("time")
    \/ StartNextScene /\ Frame("time")
SpecTimeline == TimelineInit /\ [][TimelineNext]_vars

\* C3: the timing table partitions the video: five scenes in order, the
\* first starting at 0, each ending where the next starts, the last ending
\* at VIDEO_TOTAL_DURATION = 120, the durations summing to 120; so the
\* playhead never skips or repeats a second (played = t) and stops at 120.
C3_TimingPartition ==
    /\ Len(ALL_SCENES) = 5
    /\ ALL_SCENES[1].start_time = 0
    /\ \A i \in 1..(Len(ALL_SCENES) - 1) :
          ALL_SCENES[i].end_time = ALL_SCENES[i + 1].start_time
    /\ ALL_SCENES[Len(ALL_SCENES)].end_time = VIDEO_TOTAL_DURATION
    /\ VIDEO_TOTAL_DURATION = 120
    /\ SumDurations(ALL_SCENES) = 120
    /\ played = t
    /\ ALL_SCENES[scene_i].start_time <= t /\ t <= ALL_SCENES[scene_i].end_time
    /\ (~ENABLED TimelineNext) => played = VIDEO_TOTAL_DURATION

\* The last scene has been played to its end.
C3_Witness == scene_i = 5 /\ t = 120 /\ played = 120

(***************************************************************************)
(* generate_neural_network (src/src/utils/data_generator.py).              *)
(* A node is recorded with its layer (0-based); its screen position is     *)
(* layout only and is left out.  Nodes are numbered from 0 in the order    *)
(* they are appended; a connection is the pair <<source, target>> of node  *)
(* numbers (the code never appends the same pair twice).                   *)
(***************************************************************************)
NEURAL_NETWORK_MIN_NODES == 1000
MaxLayers == 3
MaxLayerSize == 2
MaxMinNodes == 4

RECURSIVE SumSeq(_)
\* sum(layer_sizes)
SumSeq(q) == IF q = <<>> THEN 0 ELSE Head(q) + SumSeq(Tail(q))

\* The layer sizes used when none are given.
DefaultLayerSizes == <<50, 200, 400, 250, 100>>

\* Scaling that multiplies by min_nodes // total_nodes, without the + 1.
ScaleFactorNoPlusOne(min_nodes, total_nodes) == min_nodes \div total_nodes

\* scale_factor = (min_nodes // total_nodes) + 1
ScaleFactor(min_nodes, total_nodes) == (min_nodes \div total_nodes) + 1

\* The number of nodes in the layers before layer l (1-based l).
NodeOffset(sizes, l) == SumSeq(SubSeq(sizes, 1, l - 1))

\* The nodes list with every node tagged layer 0.
BuildNodesUntagged(sizes) == [k \in 1..SumSeq(sizes) |-> [layer |-> 0]]

\* The nodes list: layer after layer, each node tagged with its 0-based layer.
BuildNodes(sizes) ==
    [k \in 1..SumSeq(sizes) |->
        [layer |-> (CHOOSE l \in 1..Len(sizes) :
                        NodeOffset(sizes, l) < k /\ k <= NodeOffset(sizes, l) + sizes[l]) - 1]]

\* range(0, next_layer_size, step)
TargetOffsets(next_layer_size, step) ==
    {j \in 0..(next_layer_size - 1) : j % step = 0}

\* The step computation divides by max_connections_per_node = min(10,
\* next_layer_size); it runs once per node of the current layer, so a
\* non-empty layer followed by an empty one raises ZeroDivisionError.
StepDividesByZero(sizes) ==
    \E l \in 1..(Len(sizes) - 1) : sizes[l] > 0 /\ sizes[l + 1] = 0

\* The connections loop with the target index computed without the
\* current layer's size: targets fall into the source's own layer.
BuildConnectionsSameLayer(sizes) ==
    UNION {
        LET current_layer_size == sizes[l]
            next_layer_size == sizes[l + 1]
            node_offset == NodeOffset(sizes, l)
            max_connections_per_node == Min(10, next_layer_size)
        IN  IF current_layer_size = 0 \/ next_layer_size = 0 THEN {}
            ELSE LET step == Max(1, next_layer_size \div max_connections_per_node)
                 IN  {<<node_offset + i, node_offset + j>> :
                         i \in 0..(current_layer_size - 1),
                         j \in TargetOffsets(next_layer_size, step)}
        : l \in 1..(Len(sizes) - 1)}

\* The connections loop: every node of a layer to evenly spaced nodes of
\* the next layer.  (An empty current layer runs no iteration.)
BuildConnections(sizes) ==
    UNION {
        LET current_layer_size == sizes[l]
            next_layer_size == sizes[l + 1]
            node_offset == NodeOffset(sizes, l)
            max_connections_per_node == Min(10, next_layer_size)
        IN  IF current_layer_size = 0 \/ next_layer_size = 0 THEN {}
            ELSE LET step == Max(1, next_layer_size \div max_connections_per_node)
                 IN  {<<node_offset + i, node_offset + current_layer_size + j>> :
                         i \in 0..(current_layer_size - 1),
                         j \in TargetOffsets(next_layer_size, step)}
        : l \in 1..(Len(sizes) - 1)}

generate_neural_network(has_layer_sizes, given_sizes, min_nodes) ==
    LET layer_sizes == IF has_layer_sizes THEN given_sizes ELSE DefaultLayerSizes
        total_nodes == SumSeq(layer_sizes)
    IN  IF total_nodes < min_nodes /\ total_nodes = 0
        THEN [NoNetwork EXCEPT !.status = "ZeroDivisionError"]
        ELSE LET sizes == IF total_nodes < min_nodes
                          THEN [l \in 1..Len(layer_sizes) |->
                                   layer_sizes[l] * ScaleFactor(min_nodes, total_nodes)]
                          ELSE layer_sizes
             IN  IF StepDividesByZero(sizes)
                 THEN [NoNetwork EXCEPT !.status = "ZeroDivisionError"]
                 ELSE
                 [status |-> "ok",
                  nodes |-> BuildNodes(sizes),
                  connections |-> BuildConnections(sizes),
                  layer_sizes |-> sizes]

\* NeuralNetwork.node_count
NodeCount(network) == Len(network.nodes)

RECURSIVE SeqsUpTo(_, _)
\* The sequences over S of length at most n.
SeqsUpTo(S, n) ==
    IF n = 0 THEN {<<>>}
    ELSE LET shorter == SeqsUpTo(S, n - 1)
         IN  shorter \cup {Append(q, x) : q \in shorter, x \in S}

\* Layer sizes around the limit of 10 connections per node.
WideLayerSizes == {<<2, 10>>, <<1, 11>>, <<1, 20>>, <<3, 25, 1>>}

NetInputs ==
    {[has_layer_sizes |-> TRUE, layer_sizes |-> q, min_nodes |-> m] :
        q \in SeqsUpTo(0..MaxLayerSize, MaxLayers),
        m \in 0..MaxMinNodes}
    \cup
    {[has_layer_sizes |-> TRUE, layer_sizes |-> q, min_nodes |-> 0] : q \in WideLayerSizes}
    \cup
    {[has_layer_sizes |-> FALSE, layer_sizes |-> <<>>, min_nodes |-> m] :
        m \in {0, NEURAL_NETWORK_MIN_NODES, NEURAL_NETWORK_MIN_NODES + 1}}

\* The call generate_neural_network(layer_sizes, min_nodes).
CallGenerateNetwork ==
    /\ net_out.status = "pending"
    /\ net_out' = generate_neural_network(net_in.has_layer_sizes, net_in.layer_sizes,
                                          net_in.min_nodes)
    /\ UNCHANGED net_in

NetInit == IdleBut("net") /\ net_in \in NetInputs /\ net_out = NoNetwork
NetNext == CallGenerateNetwork /\ Frame("net")
SpecNet == NetInit /\ [][NetNext]_vars

\* C4: for every layer_sizes argument (the default included) and every
\* min_nodes, generate_neural_network returns a network whose node_count
\* is at least min_nodes.
C4_NodeCountAtLeastMin ==
    net_out.status # "pending" =>
        (net_out.status = "ok" /\ NodeCount(net_out) >= net_in.min_nodes)

\* The layer sizes the call was made with (the default when none given).
RequestedSizes ==
    IF net_in.has_layer_sizes THEN net_in.layer_sizes ELSE DefaultLayerSizes

\* C14: a generated network is consistent with its stored layer sizes:
\* node_count = sum(layer_sizes); layer l holds exactly layer_sizes[l] nodes,
\* all tagged layer = l; and when the requested sizes already total at least
\* min_nodes the stored layer_sizes are the requested ones.
C14_NetworkConsistentWithLayerSizes ==
    net_out.status = "ok" =>
        LET sizes == net_out.layer_sizes
            nodes == net_out.nodes
        IN  /\ NodeCount(net_out) = SumSeq(sizes)
            /\ \A k \in 1..Len(nodes) : nodes[k].layer \in 0..(Len(sizes) - 1)
            /\ \A l \in 1..Len(sizes) :
                  /\ Cardinality({k \in 1..Len(nodes) : nodes[k].layer = l - 1}) = sizes[l]
                  /\ \A k \in (SumSeq(SubSeq(sizes, 1, l - 1)) + 1)..SumSeq(SubSeq(sizes, 1, l)) :
                        nodes[k].layer = l - 1
            /\ SumSeq(RequestedSizes) >= net_in.min_nodes => sizes = RequestedSizes

\* A network was generated for layer sizes 2, 1, 2, which already reach
\* min_nodes = 4.
C14_Witness ==
    /\ net_out.status = "ok"
    /\ net_in = [has_layer_sizes |-> TRUE, layer_sizes |-> <<2, 1, 2>>, min_nodes |-> 4]
    /\ net_out.layer_sizes = <<2, 1, 2>>
    /\ NodeCount(net_out) = 5

\* C15: every connection of a generated network goes from a node of some
\* layer l to a node of layer l + 1, and whenever two adjacent layers are both
\* non-empty every node of the earlier layer has an outgoing connection.
C15_ConnectionsAdjacentLayers ==
    net_out.status = "ok" =>
        LET sizes == net_out.layer_sizes
            nodes == net_out.nodes
            sources == {c[1] : c \in net_out.connections}
        IN  /\ \A c \in net_out.connections :
                  /\ c[1] \in 0..(Len(nodes) - 1)
                  /\ c[2] \in 0..(Len(nodes) - 1)
                  /\ nodes[c[2] + 1].layer = nodes[c[1] + 1].layer + 1
            /\ \A k \in 1..Len(nodes) :
                  LET l == nodes[k].layer + 1
                  IN  (l < Len(sizes) /\ sizes[l] > 0 /\ sizes[l + 1] > 0) =>
                          (k - 1) \in sources

\* A network of layers 2, 1, 2 was generated with its four connections.
C15_Witness ==
    /\ net_out.status = "ok"
    /\ net_out.layer_sizes = <<2, 1, 2>>
    /\ net_out.connections = {<<0, 2>>, <<1, 2>>, <<2, 3>>, <<2, 4>>}

\* C20: every node of a non-final layer of a generated network has at most
\* min(10, size of the next layer) outgoing connections.
C20_AtMostTenConnectionsPerNode ==
    net_out.status = "ok" =>
        LET sizes == net_out.layer_sizes
            nodes == net_out.nodes
        IN  \A k \in 1..Len(nodes) :
                LET l == nodes[k].layer + 1
                IN  l < Len(sizes) =>
                        Cardinality({c \in net_out.connections : c[1] = k - 1})
                            <= Min(10, sizes[l + 1])

(***************************************************************************)
(* hex_to_rgb (src/src/utils/color_utils.py).  A string is a sequence of   *)
(* one-character strings.                                                  *)
(***************************************************************************)
MaxHexLen == 8

HexDigitChars ==
    <<"0", "1", "2", "3", "4", "5", "6", "7", "8", "9", "A", "B", "C", "D", "E", "F">>
LowerHexDigitChars == <<"a", "b", "c", "d", "e", "f">>

IsHexDigit(c) ==
    \/ \E k \in 1..16 : HexDigitChars[k] = c
    \/ \E k \in 1..6 : LowerHexDigitChars[k] = c

\* The value of one hexadecimal digit.
HexDigitValue(c) ==
    IF \E k \in 1..16 : HexDigitChars[k] = c
    THEN (CHOOSE k \in 1..16 : HexDigitChars[k] = c) - 1
    ELSE (CHOOSE k \in 1..6 : LowerHexDigitChars[k] = c) + 9

RECURSIVE LStrip(_, _)
\* str.lstrip(c): every leading c is removed.
LStrip(str, c) ==
    IF str # <<>> /\ Head(str) = c THEN LStrip(Tail(str), c) ELSE str

\* int(pair, 16) for a two-character string: two digits; or a sign and one
\* digit; or one digit with a blank before or after it.  Anything else
\* raises ValueError.
IntBase16(pair) ==
    LET a == pair[1]
        b == pair[2]
    IN  IF IsHexDigit(a) /\ IsHexDigit(b)
        THEN [ok |-> TRUE, value |-> 16 * HexDigitValue(a) + HexDigitValue(b)]
        ELSE IF a = "-" /\ IsHexDigit(b) THEN [ok |-> TRUE, value |-> 0 - HexDigitValue(b)]
        ELSE IF a \in {"+", " "} /\ IsHexDigit(b) THEN [ok |-> TRUE, value |-> HexDigitValue(b)]
        ELSE IF IsHexDigit(a) /\ b = " " THEN [ok |-> TRUE, value |-> HexDigitValue(a)]
        ELSE [ok |-> FALSE, value |-> 0]

hex_to_rgb(hex_color) ==
    LET stripped == LStrip(hex_color, "#")
    IN  IF Len(stripped) # 6 THEN [status |-> "ValueError", rgb |-> <<>>]
        ELSE LET r == IntBase16(SubSeq(stripped, 1, 2))
                 g == IntBase16(SubSeq(stripped, 3, 4))
                 b == IntBase16(SubSeq(stripped, 5, 6))
             IN  IF r.ok /\ g.ok /\ b.ok
                 THEN [status |-> "ok", rgb |-> <<r.value, g.value, b.value>>]
                 ELSE [status |-> "ValueError", rgb |-> <<>>]

HexAlphabet == {"#", "F", "-", "G"}

\* The call hex_to_rgb(hex_in).
CallHexToRgb ==
    /\ hex_out.status = "pending"
    /\ hex_out' = hex_to_rgb(hex_in)
    /\ UNCHANGED hex_in

HexInit ==
    /\ IdleBut("hex")
    /\ hex_in \in SeqsUpTo(HexAlphabet, MaxHexLen)
    /\ hex_out = NoRgb
HexNext == CallHexToRgb /\ Frame("hex")
SpecColor == HexInit /\ [][HexNext]_vars

\* Six hexadecimal digits with an optional single leading '#'.
WellFormedHex(str) ==
    LET body == IF str # <<>> /\ Head(str) = "#" THEN Tail(str) ELSE str
    IN  Len(body) = 6 /\ \A k \in 1..6 : IsHexDigit(body[k])

\* C5: hex_to_rgb raises ValueError for every input that is not six
\* hexadecimal digits with an optional single leading '#', and returns
\* three channel values in 0..255 for every well-formed input.
C5_MalformedHexRejected ==
    hex_out.status # "pending" =>
        IF WellFormedHex(hex_in)
        THEN hex_out.status = "ok" /\ \A k \in 1..3 : hex_out.rgb[k] \in 0..255
        ELSE hex_out.status = "ValueError"

(***************************************************************************)
(* rgb_to_hex and interpolate_color (src/src/utils/color_utils.py).        *)
(* The interpolation factor t is in hundredths.                            *)
(***************************************************************************)
RECURSIVE HexDigits(_)
\* The upper-case hexadecimal digits of n >= 0.
HexDigits(n) ==
    IF n < 16 THEN <<HexDigitChars[n + 1]>>
    ELSE HexDigits(n \div 16) \o <<HexDigitChars[(n % 16) + 1]>>

\* f"{n:02X}": upper-case hexadecimal, zero-padded to two characters, with
\* a minus sign (which counts towards the width) for a negative number.
Format02X(n) ==
    IF n < 0 THEN <<"-">> \o HexDigits(0 - n)
    ELSE IF n < 16 THEN <<"0">> \o HexDigits(n)
    ELSE HexDigits(n)

\* rgb_to_hex(r, g, b)
rgb_to_hex(r, g, b) == <<"#">> \o Format02X(r) \o Format02X(g) \o Format02X(b)

\* int(n / d): the quotient truncated towards zero (d > 0).
Trunc(n, d) == IF n >= 0 THEN n \div d ELSE 0 - ((0 - n) \div d)

\* The factor used as it is given.
NoClamp(factor) == factor

\* t = max(0.0, min(1.0, t))
Clamp(factor) == Max(0, Min(100, factor))

\* int(c1 + (c2 - c1) * t) for the clamped t
MixChannel(c1, c2, factor) == Trunc(100 * c1 + (c2 - c1) * factor, 100)

interpolate_color(color1, color2, factor) ==
    LET rgb1 == hex_to_rgb(color1)
        rgb2 == hex_to_rgb(color2)
    IN  IF rgb1.status # "ok" \/ rgb2.status # "ok"
        THEN [status |-> "ValueError", hex |-> <<>>]
        ELSE LET tc == Clamp(factor)
             IN  [status |-> "ok",
                  hex |-> rgb_to_hex(MixChannel(rgb1.rgb[1], rgb2.rgb[1], tc),
                                     MixChannel(rgb1.rgb[2], rgb2.rgb[2], tc),
                                     MixChannel(rgb1.rgb[3], rgb2.rgb[3], tc))]

MixColors ==
    {<<"#", "0", "0", "0", "0", "0", "0">>, <<"#", "F", "F", "F", "F", "F", "F">>,
     <<"#", "0", "0", "F", "0", "F", "F">>, <<"f", "f", "4", "5", "0", "0">>,
     <<"#", "1", "0", "F", "F", "0", "7">>, <<"#", "F", "F", "F">>, <<"-", "F", "-", "F", "-", "F">>}
MixFactors == {0 - 50, 0, 25, 50, 99, 100, 150}

\* The call interpolate_color(color1, color2, t).
CallInterpolateColor ==
    /\ mix_out.status = "pending"
    /\ mix_out' = interpolate_color(mix_in.color1, mix_in.color2, mix_in.t)
    /\ UNCHANGED mix_in

MixInit ==
    /\ IdleBut("mix")
    /\ mix_in \in [color1 : MixColors, color2 : MixColors, t : MixFactors]
    /\ mix_out = NoColor
MixNext == CallInterpolateColor /\ Frame("mix")
SpecMix == MixInit /\ [][MixNext]_vars

\* '#' followed by six upper-case hexadecimal digits.
ValidRRGGBB(str) ==
    /\ Len(str) = 7
    /\ str[1] = "#"
    /\ \A k \in 2..7 : \E d \in 1..16 : HexDigitChars[d] = str[k]

\* C16: for hex colours color1 and color2, interpolate_color clamps t to
\* [0, 1]: the result is color1's colour for every t <= 0 and color2's colour
\* for every t >= 1, and for every t each channel of the result lies between
\* the corresponding channels of color1 and color2, so the result is a valid
\* #RRGGBB colour.
C16_InterpolateClamps ==
    (mix_out.status # "pending"
        /\ WellFormedHex(mix_in.color1) /\ WellFormedHex(mix_in.color2)) =>
        /\ mix_out.status = "ok"
        /\ ValidRRGGBB(mix_out.hex)
        /\ LET c1 == hex_to_rgb(mix_in.color1).rgb
               c2 == hex_to_rgb(mix_in.color2).rgb
               c == hex_to_rgb(mix_out.hex).rgb
           IN  /\ mix_in.t <= 0 => c = c1
               /\ mix_in.t >= 100 => c = c2
               /\ \A k \in 1..3 : Min(c1[k], c2[k]) <= c[k] /\ c[k] <= Max(c1[k], c2[k])

\* Black and cyan were mixed with t = 1.5 and gave cyan.
C16_Witness ==
    /\ mix_in = [color1 |-> <<"#", "0", "0", "0", "0", "0", "0">>, color2 |-> <<"#", "0", "0", "F", "0", "F", "F">>, t |-> 150]
    /\ mix_out = [status |-> "ok", hex |-> <<"#", "0", "0", "F", "0", "F", "F">>]

(***************************************************************************)
(* apply_chromatic_aberration and apply_glow_effect                        *)
(* (src/videos/templates/effects.py).  A mobject is a record with an       *)
(* identity (id); a copy is a new mobject with the same attributes.        *)
(* Opacities, scales and glow factors are in three-hundredths (300 = 1.0); *)
(* shifts and offsets are in units of 0.005.  A group is the sequence of   *)
(* its submobjects, first added first.                                     *)
(***************************************************************************)
\* mobject.copy(): the k-th copy made of it, a mobject of its own.
Copy(mobject, k) == [mobject EXCEPT !.id = mobject.id + k]

\* A group that takes a new member at its front.
GroupAddFront(group, mobject) == <<mobject>> \o group

\* VGroup(...) and VGroup.add: a new member goes to the end; a mobject that
\* is already a member is not added again.
GroupAdd(group, mobject) ==
    IF \E k \in 1..Len(group) : group[k].id = mobject.id THEN group
    ELSE Append(group, mobject)

apply_chromatic_aberration(mobject, offset) ==
    LET red_copy == [Copy(mobject, 1) EXCEPT
                        !.color = "#FF0000", !.opacity = 90,
                        !.shift = <<mobject.shift[1] - offset,
                                    mobject.shift[2] + (offset \div 2)>>]
        blue_copy == [Copy(mobject, 2) EXCEPT
                        !.color = "#0000FF", !.opacity = 90,
                        !.shift = <<mobject.shift[1] + offset,
                                    mobject.shift[2] - (offset \div 2)>>]
    IN  GroupAdd(GroupAdd(GroupAdd(<<>>, red_copy), blue_copy), mobject)

\* One glow layer: the copy made in iteration i of the loop (i = 0, 1, 2).
GlowLayer(mobject, glow_factor, opacity, color, i) ==
    LET layer_scale == 300 + ((glow_factor - 300) * (i + 1)) \div 3
        layer_opacity == (opacity * (3 - i)) \div 3
    IN  [Copy(mobject, i + 1) EXCEPT
            !.scale = (mobject.scale * layer_scale) \div 300,
            !.opacity = layer_opacity,
            !.color = IF color # "" THEN color ELSE mobject.color]

RECURSIVE GlowLayers(_, _, _, _, _)
\* glow_layers after the iterations i, i + 1, ..., num_layers - 1 have
\* added their copies to group.
GlowLayers(group, mobject, glow_factor, opacity, color) ==
    IF Len(group) >= 3 THEN group
    ELSE GlowLayers(GroupAdd(group, GlowLayer(mobject, glow_factor, opacity, color, Len(group))),
                    mobject, glow_factor, opacity, color)

apply_glow_effect(mobject, glow_factor, opacity, color) ==
    GroupAdd(GlowLayers(<<>>, mobject, glow_factor, opacity, color), mobject)

FxInputs ==
    [mobject : {NewMobject(c, o) : c \in {"#FFFFFF", "#00F0FF"}, o \in {300, 150}},
     offset : {4, 20},
     glow_factor : {450, 600},
     opacity : {90, 240},
     color : {"", "#FFD700"}]

CallChromaticAberration ==
    /\ fx_out.status = "pending"
    /\ fx_out' = [status |-> "ok", op |-> "apply_chromatic_aberration",
                  members |-> apply_chromatic_aberration(fx_in.mobject, fx_in.offset)]
    /\ UNCHANGED fx_in

CallGlowEffect ==
    /\ fx_out.status = "pending"
    /\ fx_out' = [status |-> "ok", op |-> "apply_glow_effect",
                  members |-> apply_glow_effect(fx_in.mobject, fx_in.glow_factor,
                                                fx_in.opacity, fx_in.color)]
    /\ UNCHANGED fx_in

FxInit == IdleBut("fx") /\ fx_in \in FxInputs /\ fx_out = NoGroup
FxNext == (CallChromaticAberration \/ CallGlowEffect) /\ Frame("fx")
SpecEffects == FxInit /\ [][FxNext]_vars

\* C17: apply_chromatic_aberration returns a group of exactly 3 members (red
\* copy, blue copy, original) and apply_glow_effect a group of exactly 4
\* members (three glow copies, original); in both the original mobject is the
\* last member, and the other members are copies, not the original.
C17_OriginalOnTop ==
    fx_out.status = "ok" =>
        LET g == fx_out.members
        IN  /\ fx_out.op = "apply_chromatic_aberration" =>
                  /\ Len(g) = 3
                  /\ g[1].color = "#FF0000" /\ g[2].color = "#0000FF"
            /\ fx_out.op = "apply_glow_effect" => Len(g) = 4
            /\ g[Len(g)] = fx_in.mobject
            /\ \A k \in 1..(Len(g) - 1) : g[k].id # fx_in.mobject.id
            /\ \A j, k \in 1..Len(g) : j # k => g[j].id # g[k].id

\* A glow was applied to a cyan mobject: four members, the original last.
C17_Witness ==
    /\ fx_out.op = "apply_glow_effect"
    /\ fx_in.mobject.color = "#00F0FF"
    /\ Len(fx_out.members) = 4
    /\ fx_out.members[4] = fx_in.mobject
    /\ fx_out.members[1].opacity = fx_in.opacity

(***************************************************************************)
(* save_data_to_csv / load_data_from_csv (src/src/utils/data_generator.py) *)
(* A coordinate is a float with one decimal, held in tenths.  A file is    *)
(* the sequence of its lines, a line a sequence of one-character strings.  *)
(***************************************************************************)
MaxCsvPoints == 2

Coordinates == {0 - 15, 0, 100}

Abs(n) == IF n < 0 THEN 0 - n ELSE n

RECURSIVE Digits(_)
\* The decimal digits of n >= 0.
Digits(n) ==
    IF n < 10 THEN <<HexDigitChars[n + 1]>>
    ELSE Digits(n \div 10) \o <<HexDigitChars[(n % 10) + 1]>>

\* str(value) of a float, as csv.writer writes it: sign, integer part,
\* point, fraction.
FloatRepr(v) ==
    (IF v < 0 THEN <<"-">> ELSE <<>>) \o Digits(Abs(v) \div 10) \o <<".">>
        \o Digits(Abs(v) % 10)

IsDecimalDigit(c) == \E k \in 1..10 : HexDigitChars[k] = c

RECURSIVE DigitsValue(_)
\* The number a non-empty string of decimal digits denotes.
DigitsValue(str) ==
    IF Len(str) = 1 THEN HexDigitValue(str[1])
    ELSE DigitsValue(SubSeq(str, 1, Len(str) - 1)) * 10 + HexDigitValue(str[Len(str)])

\* float(str): an optional sign, digits, and optionally a point and one
\* more digit; the value in tenths.  Anything else raises ValueError.
ParseFloat(str) ==
    LET negative == str # <<>> /\ Head(str) = "-"
        body == IF str # <<>> /\ Head(str) \in {"-", "+"} THEN Tail(str) ELSE str
        points == {k \in 1..Len(body) : body[k] = "."}
        int_part == IF points = {} THEN body
                    ELSE SubSeq(body, 1, (CHOOSE k \in points : TRUE) - 1)
        frac_part == IF points = {} THEN <<>>
                     ELSE SubSeq(body, (CHOOSE k \in points : TRUE) + 1, Len(body))
        well_formed ==
            /\ Cardinality(points) <= 1
            /\ int_part # <<>>
            /\ Len(frac_part) <= 1
            /\ \A k \in 1..Len(int_part) : IsDecimalDigit(int_part[k])
            /\ \A k \in 1..Len(frac_part) : IsDecimalDigit(frac_part[k])
        magnitude == DigitsValue(int_part) * 10
                        + (IF frac_part = <<>> THEN 0 ELSE HexDigitValue(frac_part[1]))
    IN  IF well_formed
        THEN [ok |-> TRUE, value |-> IF negative THEN 0 - magnitude ELSE magnitude]
        ELSE [ok |-> FALSE, value |-> 0]

RECURSIVE JoinFields(_)
\* csv.writer: the fields of a row joined by commas.
JoinFields(fields) ==
    IF Len(fields) = 1 THEN fields[1]
    ELSE fields[1] \o <<",">> \o JoinFields(Tail(fields))

RECURSIVE SplitFields(_)
\* csv.reader: a line split at its commas.
SplitFields(line) ==
    LET commas == {k \in 1..Len(line) : line[k] = ","}
    IN  IF commas = {} THEN <<line>>
        ELSE LET first == CHOOSE k \in commas : \A m \in commas : k <= m
             IN  <<SubSeq(line, 1, first - 1)>>
                    \o SplitFields(SubSeq(line, first + 1, Len(line)))

\* The file written without the header row.
CsvLinesNoHeader(points) ==
    [k \in 1..Len(points) |->
        JoinFields(<<FloatRepr(points[k].x), FloatRepr(points[k].y)>>)]

\* The lines save_data_to_csv writes: the header row, then one row per point.
CsvLines(points) ==
    <<JoinFields(<<<<"x">>, <<"y">>>>)>> \o
    [k \in 1..Len(points) |->
        JoinFields(<<FloatRepr(points[k].x), FloatRepr(points[k].y)>>)]

\* row[name] of csv.DictReader: the field under the column of that name.
RowField(fieldnames, fields, name) ==
    LET cols == {k \in 1..Len(fieldnames) : fieldnames[k] = <<name>>}
    IN  IF cols = {} THEN [status |-> "KeyError", text |-> <<>>]
        ELSE LET col == CHOOSE k \in cols : \A m \in cols : k >= m
             IN  IF col > Len(fields) THEN [status |-> "TypeError", text |-> <<>>]
                 ELSE [status |-> "ok", text |-> fields[col]]

RECURSIVE ReadRows(_, _)
\* The reading loop: DataPoint(x=float(row["x"]), y=float(row["y"])) for
\* each row after the header; blank lines are skipped; the first error ends it.
ReadRows(fieldnames, lines) ==
    IF lines = <<>> THEN [status |-> "ok", points |-> <<>>]
    ELSE IF Head(lines) = <<>> THEN ReadRows(fieldnames, Tail(lines))
    ELSE LET fields == SplitFields(Head(lines))
             fx == RowField(fieldnames, fields, "x")
             fy == RowField(fieldnames, fields, "y")
         IN  IF fx.status # "ok" THEN [status |-> fx.status, points |-> <<>>]
             ELSE IF ~ParseFloat(fx.text).ok THEN [status |-> "ValueError", points |-> <<>>]
             ELSE IF fy.status # "ok" THEN [status |-> fy.status, points |-> <<>>]
             ELSE IF ~ParseFloat(fy.text).ok THEN [status |-> "ValueError", points |-> <<>>]
             ELSE LET rest == ReadRows(fieldnames, Tail(lines))
                  IN  IF rest.status # "ok" THEN rest
                      ELSE [status |-> "ok",
                            points |-> <<[x |-> ParseFloat(fx.text).value,
                                          y |-> ParseFloat(fy.text).value]>>
                                        \o rest.points]

\* csv.DictReader over the lines of a file: the first line names the columns.
ParseCsv(lines) ==
    IF lines = <<>> THEN [status |-> "ok", points |-> <<>>]
    ELSE ReadRows(SplitFields(Head(lines)), Tail(lines))

\* Opening the file for appending and reading ("a+"): a missing file is created.
OpenAppendRead(dirs, files, path) ==
    IF path[1] \notin dirs THEN [status |-> "FileNotFoundError", files |-> files]
    ELSE [status |-> "ok",
          files |-> IF files[path].exists THEN files
                    ELSE [files EXCEPT ![path] = [exists |-> TRUE, lines |-> <<>>]]]

\* filepath.open(): opening for reading; a missing file (or directory)
\* raises FileNotFoundError and nothing is created.
OpenRead(dirs, files, path) ==
    IF path[1] \in dirs /\ files[path].exists
    THEN [status |-> "ok", files |-> files]
    ELSE [status |-> "FileNotFoundError", files |-> files]

\* save_data_to_csv(csv_points, path): the parent directory is created, the
\* file is truncated and written.
SaveDataToCsv(path) ==
    /\ fs_dirs' = fs_dirs \cup {path[1]}
    /\ fs_files' = [fs_files EXCEPT ![path] = [exists |-> TRUE, lines |-> CsvLines(csv_points)]]
    /\ csv_written' = [csv_written EXCEPT ![path] = TRUE]
    /\ csv_last' = [op |-> "save", path |-> path, status |-> "ok", points |-> <<>>,
                    existed |-> fs_files[path].exists, dir_existed |-> path[1] \in fs_dirs]
    /\ UNCHANGED csv_points

\* load_data_from_csv(path)
LoadDataFromCsv(path) ==
    LET opened == OpenRead(fs_dirs, fs_files, path)
        parsed == IF opened.status = "ok" THEN ParseCsv(opened.files[path].lines)
                  ELSE [status |-> opened.status, points |-> <<>>]
    IN  /\ fs_files' = opened.files
        /\ csv_last' = [op |-> "load", path |-> path, status |-> parsed.status,
                        points |-> parsed.points,
                        existed |-> fs_files[path].exists,
                        dir_existed |-> path[1] \in fs_dirs]
        /\ UNCHANGED <<fs_dirs, csv_points, csv_written>>

CsvPoints == [x : Coordinates, y : Coordinates]

\* A file left by an earlier run.
StaleFile == [exists |-> TRUE, lines |-> CsvLines(<<[x |-> 5, y |-> 5]>>)]

CsvInit ==
    /\ IdleBut("csv")
    /\ csv_points \in SeqsUpTo(CsvPoints, MaxCsvPoints)
    /\ \/ fs_dirs = {} /\ fs_files = [p \in Paths |-> NoFile]
       \/ fs_dirs = {"data"} /\ fs_files = [p \in Paths |-> NoFile]
       \/ /\ fs_dirs = {"data"}
          /\ fs_files = [p \in Paths |-> IF p[1] = "data" THEN StaleFile ELSE NoFile]
    /\ csv_written = [p \in Paths |-> FALSE]
    /\ csv_last = NoCall
CsvNext ==
    \/ \E path \in Paths : SaveDataToCsv(path) /\ Frame("csv")
    \/ \E path \in Paths : LoadDataFromCsv(path) /\ Frame("csv")
SpecCsv == CsvInit /\ [][CsvNext]_vars

\* C6: CSV save/load round-trips: loading a path that save_data_to_csv
\* wrote returns as many points as were saved, in the same order, each x
\* and y equal to the original (the tolerance of 1e-10 is below one tenth,
\* the unit of the coordinates, so equal within tolerance is equality).
C6_CsvRoundTrip ==
    (csv_last.op = "load" /\ csv_written[csv_last.path]) =>
        /\ csv_last.status = "ok"
        /\ Len(csv_last.points) = Len(csv_points)
        /\ \A k \in 1..Len(csv_points) :
              /\ Abs(csv_last.points[k].x - csv_points[k].x) = 0
              /\ Abs(csv_last.points[k].y - csv_points[k].y) = 0

\* A list of two different points, one with a negative fractional
\* coordinate, was saved over an older file and loaded back.
C6_Witness ==
    /\ csv_last.op = "load" /\ csv_written[csv_last.path]
    /\ csv_last.path = <<"data", "linear.csv">>
    /\ Len(csv_points) = 2
    /\ csv_points[1] = [x |-> 0 - 15, y |-> 100]
    /\ csv_points[2] = [x |-> 100, y |-> 0]
    /\ csv_last.points = csv_points

\* C9: loading a CSV file that does not exist raises FileNotFoundError,
\* returns no points and creates neither the file nor its directory.
C9_MissingFileNotFound ==
    (csv_last.op = "load" /\ ~csv_last.existed) =>
        /\ csv_last.status = "FileNotFoundError"
        /\ csv_last.points = <<>>
        /\ ~fs_files[csv_last.path].exists
        /\ (~csv_last.dir_existed => csv_last.path[1] \notin fs_dirs)

\* A load of a missing file in an existing directory has failed.
C9_Witness ==
    /\ csv_last.op = "load" /\ ~csv_last.existed /\ csv_last.dir_existed
    /\ csv_last.status = "FileNotFoundError"

(***************************************************************************)
(* RegressionLine, ErrorBar and create_error_bars                          *)
(* (src/src/utils/data_generator.py).  Coordinates and coefficients are    *)
(* whole numbers here, so predict is exact.                                *)
(***************************************************************************)
MaxBarPoints == 2
MaxCoefficients == 3

RECURSIVE Pow(_, _)
\* x**i
Pow(x, i) == IF i = 0 THEN 1 ELSE x * Pow(x, i - 1)

RECURSIVE PolySumDescending(_, _, _)
\* The sum with the coefficients read highest power first.
PolySumDescending(coefficients, x, i) ==
    IF i >= Len(coefficients) THEN 0
    ELSE coefficients[i + 1] * Pow(x, Len(coefficients) - 1 - i)
         + PolySumDescending(coefficients, x, i + 1)

RECURSIVE PolySum(_, _, _)
\* sum(coef * (x**i) for i, coef in enumerate(coefficients)), from index i on
PolySum(coefficients, x, i) ==
    IF i >= Len(coefficients) THEN 0
    ELSE coefficients[i + 1] * Pow(x, i) + PolySum(coefficients, x, i + 1)

\* RegressionLine.predict
Predict(regression, x) ==
    IF regression.line_type = "linear" /\ Len(regression.coefficients) = 2
    THEN regression.coefficients[1] * x + regression.coefficients[2]
    ELSE IF regression.line_type = "polynomial"
    THEN PolySum(regression.coefficients, x, 0)
    ELSE 0

\* The residual with its sign reversed: predicted minus actual.
ResidualReversed(bar) == bar.predicted_y - bar.data_point.y

\* ErrorBar.residual
Residual(bar) == bar.data_point.y - bar.predicted_y

create_error_bars(points, regression) ==
    [k \in 1..Len(points) |->
        [data_point |-> points[k], predicted_y |-> Predict(regression, points[k].x)]]

BarPoints == [x : {0, 2}, y : {0 - 1, 3}]
Regressions ==
    [line_type : {"linear", "polynomial", "other"},
     coefficients : SeqsUpTo({0 - 1, 2}, MaxCoefficients)]

\* The call create_error_bars(bar_points, bar_regression); the residual of
\* every bar is read with it.
CallCreateErrorBars ==
    /\ bar_out.status = "pending"
    /\ LET bars == create_error_bars(bar_points, bar_regression)
       IN  bar_out' = [status |-> "ok", bars |-> bars,
                       residuals |-> [k \in 1..Len(bars) |-> Residual(bars[k])]]
    /\ UNCHANGED <<bar_points, bar_regression>>

BarInit ==
    /\ IdleBut("bar")
    /\ bar_points \in SeqsUpTo(BarPoints, MaxBarPoints)
    /\ bar_regression \in Regressions
    /\ bar_out = NoBars
BarNext == CallCreateErrorBars /\ Frame("bar")
SpecBars == BarInit /\ [][BarNext]_vars

\* C8: create_error_bars returns exactly one ErrorBar per point, in input
\* order, and each bar's residual is data_point.y - regression.predict(data_point.x).
C8_ResidualActualMinusPredicted ==
    bar_out.status = "ok" =>
        /\ Len(bar_out.bars) = Len(bar_points)
        /\ \A k \in 1..Len(bar_points) :
              /\ bar_out.bars[k].data_point = bar_points[k]
              /\ bar_out.residuals[k]
                    = bar_points[k].y - Predict(bar_regression, bar_points[k].x)

\* Bars were created for two different points against the line y = 2x - 1,
\* and the first residual is not zero.
C8_Witness ==
    /\ bar_out.status = "ok"
    /\ bar_regression = [line_type |-> "linear", coefficients |-> <<2, 0 - 1>>]
    /\ bar_points = <<[x |-> 2, y |-> 0 - 1], [x |-> 0, y |-> 3]>>
    /\ bar_out.residuals = <<0 - 4, 4>>

(***************************************************************************)
(* RegressionLine.predict called on its own, on lines built directly from  *)
(* a type and a coefficient tuple.                                         *)
(***************************************************************************)
PredictXs == {0 - 2, 0, 1, 3}

CallPredict ==
    /\ pred_out.status = "pending"
    /\ pred_out' = [status |-> "ok", y |-> Predict(pred_line, pred_x)]
    /\ UNCHANGED <<pred_line, pred_x>>

PredInit ==
    /\ IdleBut("pred")
    /\ pred_line \in Regressions
    /\ pred_x \in PredictXs
    /\ pred_out = NoPrediction
PredNext == CallPredict /\ Frame("pred")
SpecPredict == PredInit /\ [][PredNext]_vars

RECURSIVE Horner(_, _, _)
\* c[k] + x * (c[k+1] + x * (...)): the polynomial with coefficients c,
\* lowest power first, evaluated at x.
Horner(c, x, k) ==
    IF k > Len(c) THEN 0 ELSE c[k] + x * Horner(c, x, k + 1)

\* C13: predict(x) is slope * x + intercept for a "linear" line with
\* coefficients (slope, intercept), and the sum of coefficients[i] * x^i
\* for a "polynomial" line.
C13_PredictFormula ==
    pred_out.status = "ok" =>
        /\ (pred_line.line_type = "linear" /\ Len(pred_line.coefficients) = 2) =>
              pred_out.y = pred_line.coefficients[1] * pred_x + pred_line.coefficients[2]
        /\ pred_line.line_type = "polynomial" =>
              pred_out.y = Horner(pred_line.coefficients, pred_x, 1)

\* predict(3) on the polynomial -1 + 2x + 2x^2 gave 23.
C13_Witness ==
    /\ pred_line = [line_type |-> "polynomial", coefficients |-> <<0 - 1, 2, 2>>]
    /\ pred_x = 3
    /\ pred_out = [status |-> "ok", y |-> 23]

(***************************************************************************)
(* fit_linear_regression and fit_polynomial_regression                     *)
(* (src/src/utils/data_generator.py).  Both call np.polyfit, which returns *)
(* the least-squares coefficients, highest power first.  Coordinates are   *)
(* whole numbers; coefficients are in thousandths.  The least-squares      *)
(* solution is computed exactly from the normal equations by Cramer's      *)
(* rule and then rounded down to a thousandth.                             *)
(***************************************************************************)
MaxFitPoints == 3
DefaultDegree == 3

RECURSIVE PowerSum(_, _, _)
\* sum of x**e over the points from index k on
PowerSum(points, e, k) ==
    IF k > Len(points) THEN 0
    ELSE Pow(points[k].x, e) + PowerSum(points, e, k + 1)

RECURSIVE MomentSum(_, _, _)
\* sum of x**e * y over the points from index k on
MomentSum(points, e, k) ==
    IF k > Len(points) THEN 0
    ELSE Pow(points[k].x, e) * points[k].y + MomentSum(points, e, k + 1)

\* The normal equations of the fit of degree deg, unknowns ordered from
\* the highest power down: NormalMatrix * c = NormalRhs.
NormalMatrix(points, deg) ==
    [i \in 1..(deg + 1) |->
        [j \in 1..(deg + 1) |-> PowerSum(points, (deg + 1 - i) + (deg + 1 - j), 1)]]
NormalRhs(points, deg) ==
    [i \in 1..(deg + 1) |-> MomentSum(points, deg + 1 - i, 1)]

\* M without its first row and its column j.
Minor(M, j) ==
    [r \in 1..(Len(M) - 1) |->
        [c \in 1..(Len(M) - 1) |-> M[r + 1][IF c < j THEN c ELSE c + 1]]]

\* M with column j replaced by the vector v.
ReplaceColumn(M, j, v) ==
    [r \in 1..Len(M) |-> [c \in 1..Len(M) |-> IF c = j THEN v[r] ELSE M[r][c]]]

RECURSIVE Det(_), DetRow(_, _)
\* The determinant, expanded along the first row (from column j on).
Det(M) == IF Len(M) = 1 THEN M[1][1] ELSE DetRow(M, 1)
DetRow(M, j) ==
    IF j > Len(M) THEN 0
    ELSE (IF j % 2 = 1 THEN 1 ELSE 0 - 1) * M[1][j] * Det(Minor(M, j))
         + DetRow(M, j + 1)

\* The fit has one solution: there are more than deg distinct x values.
FullRank(points, deg) == Det(NormalMatrix(points, deg)) # 0

\* The least-squares coefficients, highest power first, in thousandths.
LeastSquares(points, deg) ==
    LET A == NormalMatrix(points, deg)
        b == NormalRhs(points, deg)
    IN  [j \in 1..(deg + 1) |-> (1000 * Det(ReplaceColumn(A, j, b))) \div Det(A)]

\* When the fit is rank deficient np.polyfit warns (RankWarning) and
\* returns the minimum-norm solution of its scaled system; that value is
\* left open here: each of the deg + 1 coefficients is one of these.
RankDeficientValues == {0, 1000}

\* How np.polyfit(x_values, y_values, deg) ends.
PolyfitStatus(points, deg) ==
    IF deg < 0 THEN "ValueError"
    ELSE IF Len(points) = 0 THEN "TypeError"
    ELSE "ok"

\* The coefficient tuples np.polyfit can return, highest power first.
polyfit(points, deg) ==
    IF FullRank(points, deg) THEN {LeastSquares(points, deg)}
    ELSE [1..(deg + 1) -> RankDeficientValues]

\* A fitted line, or the exception np.polyfit raised.
Fitted(op, line_type, coefficients) ==
    [op |-> op, status |-> "ok", line_type |-> line_type, coefficients |-> coefficients]
FitRaised(op, exception) ==
    [op |-> op, status |-> exception, line_type |-> "", coefficients |-> <<>>]

\* fit_linear_regression with the two coefficients stored the other way
\* round: (intercept, slope).
FitLinearSwapped(points) ==
    IF PolyfitStatus(points, 1) # "ok"
    THEN {FitRaised("fit_linear_regression", PolyfitStatus(points, 1))}
    ELSE {Fitted("fit_linear_regression", "linear", <<c[2], c[1]>>) :
             c \in polyfit(points, 1)}

\* fit_linear_regression(points): the possible results.
fit_linear_regression(points) ==
    IF PolyfitStatus(points, 1) # "ok"
    THEN {FitRaised("fit_linear_regression", PolyfitStatus(points, 1))}
    ELSE {Fitted("fit_linear_regression", "linear", <<c[1], c[2]>>) :
             c \in polyfit(points, 1)}

\* The solver's order kept as it is.
NotReversed(q) == q

\* tuple(reversed(coefficients.tolist()))
Reversed(q) == [k \in 1..Len(q) |-> q[Len(q) + 1 - k]]

\* fit_polynomial_regression(points, degree): the possible results.
fit_polynomial_regression(points, degree) ==
    IF PolyfitStatus(points, degree) # "ok"
    THEN {FitRaised("fit_polynomial_regression", PolyfitStatus(points, degree))}
    ELSE {Fitted("fit_polynomial_regression", "polynomial", Reversed(c)) :
             c \in polyfit(points, degree)}

FitPoints == [x : {0, 1, 2}, y : {0 - 1, 1, 3}]
Degrees == {0 - 1, 0, 1, 2, DefaultDegree}

CallFitLinear ==
    /\ fit_out.status = "pending"
    /\ fit_out' \in fit_linear_regression(fit_points)
    /\ UNCHANGED <<fit_points, fit_degree>>

CallFitPolynomial ==
    /\ fit_out.status = "pending"
    /\ fit_out' \in fit_polynomial_regression(fit_points, fit_degree)
    /\ UNCHANGED <<fit_points, fit_degree>>

FitInit ==
    /\ IdleBut("fit")
    /\ fit_points \in SeqsUpTo(FitPoints, MaxFitPoints)
    /\ fit_degree \in Degrees
    /\ fit_out = NoLine
FitNext == (CallFitLinear \/ CallFitPolynomial) /\ Frame("fit")
SpecFit == FitInit /\ [][FitNext]_vars

\* The number of distinct x values among the points.
DistinctXs(points) == Cardinality({points[k].x : k \in 1..Len(points)})

\* Every point lies on the polynomial with coefficients a, lowest power first.
OnPolynomial(points, a) ==
    \A k \in 1..Len(points) : points[k].y = PolySum(a, points[k].x, 0)

\* C11: for points lying exactly on y = m*x + b with at least two distinct
\* x values, fit_linear_regression returns a line of type "linear" whose
\* two coefficients are (slope, intercept) = (m, b) within 0.01.
C11_LinearFitRecoversLine ==
    fit_out.op = "fit_linear_regression" =>
        \A m \in (0 - 4)..4, b \in (0 - 4)..4 :
            (OnPolynomial(fit_points, <<b, m>>) /\ DistinctXs(fit_points) >= 2) =>
                /\ fit_out.status = "ok"
                /\ fit_out.line_type = "linear"
                /\ Len(fit_out.coefficients) = 2
                /\ Abs(fit_out.coefficients[1] - 1000 * m) < 10
                /\ Abs(fit_out.coefficients[2] - 1000 * b) < 10

\* Three points of y = 2x - 1 were fitted and gave slope 2, intercept -1.
C11_Witness ==
    /\ fit_out.op = "fit_linear_regression"
    /\ fit_points = <<[x |-> 0, y |-> 0 - 1], [x |-> 1, y |-> 1], [x |-> 2, y |-> 3]>>
    /\ fit_out.coefficients = <<2000, 0 - 1000>>

\* C12: fit_polynomial_regression(points, degree = d) returns a line of type
\* "polynomial" with exactly d + 1 coefficients, lowest power first: when the
\* points lie on a polynomial and determine it, the coefficient at index i
\* is the one that multiplies x^i.
C12_PolynomialAscendingOrder ==
    (fit_out.op = "fit_polynomial_regression" /\ fit_out.status = "ok") =>
        /\ fit_out.line_type = "polynomial"
        /\ Len(fit_out.coefficients) = fit_degree + 1
        /\ DistinctXs(fit_points) >= fit_degree + 1 =>
              \A a \in [1..(fit_degree + 1) -> (0 - 4)..4] :
                  OnPolynomial(fit_points, a) =>
                      fit_out.coefficients = [i \in 1..(fit_degree + 1) |-> 1000 * a[i]]

\* Three points of y = 1 - 4x + 2x^2 were fitted with degree 2.
C12_Witness ==
    /\ fit_out.op = "fit_polynomial_regression"
    /\ fit_degree = 2
    /\ fit_points = <<[x |-> 0, y |-> 1], [x |-> 1, y |-> 0 - 1], [x |-> 2, y |-> 1]>>
    /\ fit_out.coefficients = <<1000, 0 - 4000, 2000>>

(***************************************************************************)
(* src/scripts/generate_manim_stubs.py: main,                              *)
(* generate_stubs_from_manim_cli and create_comprehensive_manim_stubs.     *)
(* The environment decides how `manim --help` and the `python -c` probe    *)
(* end; main runs one subprocess or one file write per step.               *)
(***************************************************************************)
\* How subprocess.run(["manim", "--help"], timeout=5) can end.
CliOutcomes == {"ok", "nonzero", "not_found", "timeout"}
\* How subprocess.run(["python", "-c", ...], timeout=10) can end.
ProbeOutcomes == {"found", "not_imported", "not_found", "timeout"}

MainStub == "manim/__init__.pyi"
MobjectStub == "manim/mobject/mobject.pyi"
Submodules ==
    <<"manim/mobject/__init__.pyi", "manim/mobject/geometry/__init__.pyi",
      "manim/animation/__init__.pyi", "manim/animation/creation.pyi",
      "manim/animation/fading.pyi", "manim/animation/composition.pyi",
      "manim/scene/__init__.pyi", "manim/utils/__init__.pyi",
      "manim/utils/rate_functions.pyi">>
AllStubs == {MainStub, MobjectStub} \cup {Submodules[k] : k \in 1..Len(Submodules)}

\* main after subprocess.run(["manim", "--help"]): exit status 0 goes on
\* to generate_stubs_from_manim_cli; a non-zero status falls through to
\* the manual stubs; FileNotFoundError is caught and falls through; no
\* other exception is caught, so TimeoutExpired leaves main.
MainAfterLookup(cli) ==
    IF cli = "ok" THEN [pc |-> "cli", result |-> Running]
    ELSE IF cli \in {"nonzero", "not_found"} THEN [pc |-> "create", result |-> Running]
    ELSE [pc |-> "done",
          result |-> [status |-> "raised", value |-> 0, exception |-> "TimeoutExpired"]]

\* main: the lookup of the manim CLI.
RunManimHelp ==
    /\ stub_pc = "main"
    /\ stub_pc' = MainAfterLookup(stub_env.cli).pc
    /\ stub_result' = MainAfterLookup(stub_env.cli).result
    /\ UNCHANGED <<stub_env, stub_i, stub_files>>

\* generate_stubs_from_manim_cli: whatever the probe prints, and whatever
\* exception it raises, create_comprehensive_manim_stubs is called next.
RunPythonProbe ==
    /\ stub_pc = "cli"
    /\ stub_env.probe \in ProbeOutcomes
    /\ stub_pc' = "create"
    /\ UNCHANGED <<stub_env, stub_i, stub_files, stub_result>>

\* create_comprehensive_manim_stubs: the main manim/__init__.pyi is written.
WriteMainStub ==
    /\ stub_pc = "create"
    /\ stub_files' = stub_files \cup {MainStub}
    /\ stub_i' = 1
    /\ stub_pc' = "submodules"
    /\ UNCHANGED <<stub_env, stub_result>>

\* One turn of the submodules loop: the stub is written unless it exists.
WriteSubmoduleStub ==
    /\ stub_pc = "submodules"
    /\ stub_i <= Len(Submodules)
    /\ stub_files' = IF Submodules[stub_i] \in stub_files THEN stub_files
                     ELSE stub_files \cup {Submodules[stub_i]}
    /\ stub_i' = stub_i + 1
    /\ UNCHANGED <<stub_env, stub_pc, stub_result>>

\* The mobject stub is written and create_comprehensive_manim_stubs
\* returns 0, which main returns.
WriteMobjectStub ==
    /\ stub_pc = "submodules"
    /\ stub_i > Len(Submodules)
    /\ stub_files' = stub_files \cup {MobjectStub}
    /\ stub_pc' = "done"
    /\ stub_result' = [status |-> "returned", value |-> 0, exception |-> ""]
    /\ UNCHANGED <<stub_env, stub_i>>

StubInit ==
    /\ IdleBut("stub")
    /\ stub_env \in [cli : CliOutcomes, probe : ProbeOutcomes]
    /\ stub_pc = "main"
    /\ stub_i = 1
    /\ stub_files \in SUBSET {Submodules[1], Submodules[9]}
    /\ stub_result = Running
StubNext ==
    \/ RunManimHelp /\ Frame("stub")
    \/ RunPythonProbe /\ Frame("stub")
    \/ WriteMainStub /\ Frame("stub")
    \/ WriteSubmoduleStub /\ Frame("stub")
    \/ WriteMobjectStub /\ Frame("stub")
SpecStubs == StubInit /\ [][StubNext]_vars

\* C7: in every way the lookup of the manim CLI can fail (not found,
\* non-zero exit status, timeout) main falls back to the manual stubs,
\* writes them and returns 0 with no exception escaping.
C7_LookupFailureFallsBack ==
    (stub_pc = "done" /\ stub_env.cli \in {"not_found", "nonzero", "timeout"}) =>
        /\ stub_result.status = "returned"
        /\ stub_result.value = 0
        /\ AllStubs \subseteq stub_files

(***************************************************************************)
(* JudgeCurveComplete.construct (src/videos/scenes/judge_curve_complete.py)*)
(* and the sequence HallucinationScene issues into a parent scene          *)
(* (src/videos/scenes/section1_hallucination.py).  Times are in            *)
(* milliseconds; the voiceover durations are chosen so that every phase    *)
(* split below is a whole number of milliseconds.                          *)
(***************************************************************************)
VoiceoverDurations == {4500, 7500, 25500}

\* len(HALLUCINATION_FRAGMENTS)
NumFragments == 15

\* x * p / 100
Pct(x, p) == (x * p) \div 100

\* A mobject of the scene, by name; the text lines are numbered.
Mob(name) == <<name, 0>>
TextLines == {<<"text", k>> : k \in 1..NumFragments}

Step(op, run_time, adds, removes) ==
    [op |-> op, run_time |-> run_time, adds |-> adds, removes |-> removes]

\* The blinking of the cursor: four times down to 0.3 and back to 1.0.
BlinkSteps(blink_time) ==
    [k \in 1..8 |-> Step("play", blink_time, {Mob("cursor")}, {})]

\* _flood_incoherent_text_in_scene: each line is typed in 80% of its
\* share, with a pause of 20% after every line but the last.
FloodStepsInScene(duration) ==
    LET time_per_line == duration \div NumFragments
    IN  [k \in 1..(2 * NumFragments - 1) |->
            IF k % 2 = 1
            THEN Step("play", Pct(time_per_line, 80), {<<"text", (k + 1) \div 2>>}, {})
            ELSE Step("wait", Pct(time_per_line, 20), {}, {})]

\* _apply_static_dissolution_in_scene: the noise is added, the content
\* fades out while the noise comes up, the noise is held and fades out.
DissolutionStepsInScene(duration) ==
    <<Step("add", 0, {Mob("noise")}, {}),
      Step("play", Pct(duration, 40), {Mob("noise")}, {Mob("cursor"), Mob("warning")} \cup TextLines),
      Step("wait", Pct(duration, 30), {}, {}),
      Step("play", Pct(duration, 30), {}, {Mob("noise")})>>

\* _run_visual_sequence_in_scene(scene, total_duration)
HallucinationStepsInScene(total_duration) ==
    LET cursor_duration == Pct(total_duration, 20)
        flood_duration == Pct(total_duration, 20)
        warning_duration == Pct(total_duration, 20)
        static_duration == Pct(total_duration, 40)
        blink_time == (cursor_duration - 500) \div 8
    IN  <<Step("play", 500, {Mob("cursor")}, {})>>
        \o BlinkSteps(blink_time)
        \o FloodStepsInScene(flood_duration)
        \o <<Step("play", 500, {Mob("warning")}, {}),
              Step("wait", warning_duration - 500, {}, {})>>
        \o DissolutionStepsInScene(static_duration)

\* construct: the speech service and the background colour are set, and
\* _render_section_1 enters the section's voiceover, whose tracker gives
\* the duration of the spoken text.
BeginSection1 ==
    /\ cmp_pc = "construct"
    /\ \E d \in VoiceoverDurations : cmp_duration' = d
    /\ cmp_pc' = "section1"
    /\ cmp_i' = 0
    /\ UNCHANGED <<cmp_elapsed, cmp_screen, cmp_rendered>>

\* The next play, wait or add of the section is issued into the parent scene.
IssueStep ==
    /\ cmp_pc = "section1"
    /\ cmp_i < Len(HallucinationStepsInScene(cmp_duration))
    /\ LET step == HallucinationStepsInScene(cmp_duration)[cmp_i + 1]
       IN  /\ cmp_screen' = (cmp_screen \cup step.adds) \ step.removes
           /\ cmp_elapsed' = cmp_elapsed + step.run_time
    /\ cmp_i' = cmp_i + 1
    /\ UNCHANGED <<cmp_pc, cmp_duration, cmp_rendered>>

\* render_animations returns and _render_section_1 clears the scene.
\* The calls of _render_section_2 .. _render_section_5 are commented out
\* in construct, so construct returns here.
EndSection1 ==
    /\ cmp_pc = "section1"
    /\ cmp_i = Len(HallucinationStepsInScene(cmp_duration))
    /\ cmp_rendered' = Append(cmp_rendered, SCENE_HALLUCINATION.name)
    /\ cmp_screen' = {}
    /\ cmp_pc' = "done"
    /\ UNCHANGED <<cmp_duration, cmp_i, cmp_elapsed>>

CmpInit == IdleBut("none")
CmpNext ==
    \/ BeginSection1 /\ Frame("cmp")
    \/ IssueStep /\ Frame("cmp")
    \/ EndSection1 /\ Frame("cmp")
SpecCompose == CmpInit /\ [][CmpNext]_vars

\* C2: JudgeCurveComplete.construct renders the five sections, in the
\* order of ALL_SCENES, each to its end before the next starts: when
\* construct is done, the sections rendered are exactly those five.
C2_AllFiveSectionsInOrder ==
    cmp_pc = "done" =>
        cmp_rendered = [k \in 1..Len(ALL_SCENES) |-> ALL_SCENES[k].name]

(***************************************************************************)
(* SynthesisScene (src/videos/scenes/section5_synthesis.py).  Times are in *)
(* milliseconds, opacities in hundredths; the voiceover durations are      *)
(* chosen so that every phase split is a whole number of milliseconds.     *)
(***************************************************************************)
SynthesisDurations == {2000, 20000}

WIRE_ROWS == 12
WIRE_COLS == 18
CONNECTION_COUNT == 150

TimedStep(op, run_time) == [op |-> op, run_time |-> run_time]

\* construct enters the voiceover, whose tracker gives the duration.
BeginSynthesis ==
    /\ syn_pc = "construct"
    /\ \E d \in SynthesisDurations : syn_duration' = d
    /\ syn_pc' = "isolate"
    /\ UNCHANGED <<syn_row, syn_col, syn_wires, syn_connections, syn_steps, syn_screen>>

\* Phase 1: the glowing curve is created (70% of the phase) and held (30%).
IsolateCurve ==
    /\ syn_pc = "isolate"
    /\ LET isolate_duration == Pct(syn_duration, 20)
       IN  syn_steps' = syn_steps \o <<TimedStep("play", Pct(isolate_duration, 70)),
                                       TimedStep("wait", Pct(isolate_duration, 30))>>
    /\ syn_screen' = syn_screen \cup {Mob("curve_with_glow")}
    /\ syn_pc' = "wire"
    /\ UNCHANGED <<syn_duration, syn_row, syn_col, syn_wires, syn_connections>>

\* Phase 2, _transform_curve_to_wire: the curve shrinks to a wire (60%)
\* and is held (40%).
TransformCurveToWire ==
    /\ syn_pc = "wire"
    /\ LET wire_duration == Pct(syn_duration, 25)
       IN  syn_steps' = syn_steps \o <<TimedStep("play", Pct(wire_duration, 60)),
                                       TimedStep("wait", Pct(wire_duration, 40))>>
    /\ syn_pc' = "wires"
    /\ syn_row' = 0
    /\ syn_col' = 0
    /\ UNCHANGED <<syn_duration, syn_wires, syn_connections, syn_screen>>

\* Phase 3, _reveal_curved_wire_network: one turn of the loops over
\* range(_WIRE_ROWS) and range(_WIRE_COLS); a wire is created and added
\* to network_wires.
AddWire ==
    /\ syn_pc = "wires"
    /\ syn_row < WIRE_ROWS
    /\ syn_wires' = Append(syn_wires,
                           [row |-> syn_row, col |-> syn_col,
                            opacity |-> 60 + (30 * ((syn_row + syn_col) % 3)) \div 2])
    /\ IF syn_col + 1 < WIRE_COLS
       THEN syn_col' = syn_col + 1 /\ syn_row' = syn_row
       ELSE syn_col' = 0 /\ syn_row' = syn_row + 1
    /\ UNCHANGED <<syn_pc, syn_duration, syn_connections, syn_steps, syn_screen>>

\* The rest of _reveal_curved_wire_network: the connection curves are
\* created, the single wire fades out (15%), the network is added and
\* expands (65%) and is held (20%).
RevealNetwork ==
    /\ syn_pc = "wires"
    /\ syn_row = WIRE_ROWS
    /\ syn_connections' = CONNECTION_COUNT
    /\ LET network_duration == Pct(syn_duration, 30)
       IN  syn_steps' = syn_steps \o <<TimedStep("play", Pct(network_duration, 15)),
                                       TimedStep("play", Pct(network_duration, 65)),
                                       TimedStep("wait", Pct(network_duration, 20))>>
    /\ syn_screen' = (syn_screen \ {Mob("curve_with_glow")}) \cup {Mob("full_network")}
    /\ syn_pc' = "judge"
    /\ UNCHANGED <<syn_duration, syn_row, syn_col, syn_wires>>

\* Phase 4, _create_glowing_judge_text: the text is written (40%),
\* replaced by its glowing version, pulsed up and down (20% each), held
\* (20%), and everything fades out with run_time = duration * 0.0.
CreateGlowingJudgeText ==
    /\ syn_pc = "judge"
    /\ LET judge_duration == Pct(syn_duration, 25)
       IN  syn_steps' = syn_steps \o <<TimedStep("play", Pct(judge_duration, 40)),
                                       TimedStep("play", Pct(judge_duration, 20)),
                                       TimedStep("play", Pct(judge_duration, 20)),
                                       TimedStep("wait", Pct(judge_duration, 20)),
                                       TimedStep("play", Pct(judge_duration, 0))>>
    /\ syn_screen' = syn_screen \ {Mob("full_network"), Mob("glow_text")}
    /\ syn_pc' = "done"
    /\ UNCHANGED <<syn_duration, syn_row, syn_col, syn_wires, syn_connections>>

SynInit == IdleBut("none")
SynNext ==
    \/ BeginSynthesis /\ Frame("syn")
    \/ IsolateCurve /\ Frame("syn")
    \/ TransformCurveToWire /\ Frame("syn")
    \/ AddWire /\ Frame("syn")
    \/ RevealNetwork /\ Frame("syn")
    \/ CreateGlowingJudgeText /\ Frame("syn")
SpecSynth == SynInit /\ [][SynNext]_vars

\* C10: the neural network revealed in the synthesis scene has at least
\* NEURAL_NETWORK_MIN_NODES = 1000 nodes.
C10_RevealedNetworkMinNodes ==
    syn_pc \in {"judge", "done"} => Len(syn_wires) >= NEURAL_NETWORK_MIN_NODES

(***************************************************************************)
(* ContinuousScaleScene (src/videos/scenes/section2_scale.py): the play    *)
(* and wait steps of its visual sequence.  Times are in milliseconds; the  *)
(* voiceover durations are multiples of 50 ms, so every run time below is  *)
(* a whole number of milliseconds.                                         *)
(***************************************************************************)
ScaleDurations ==
    {1000, 2000, 5000, 10000, 12350, 15000, 18650, 20000, 25000, 30000}

\* _animate_score: the handle moves in `duration`, then the highlight is
\* reset in 0.2 s.
AnimateScoreSteps(duration) ==
    <<TimedStep("play", duration), TimedStep("play", 200)>>

\* _run_visual_sequence(total_duration): the steps it issues, in order.
ScaleSteps(total_duration) ==
    LET split_duration == Pct(total_duration, 20)
        slider_duration == Pct(total_duration, 20)
        scoring_duration == Pct(total_duration, 40)
        conclusion_duration == Pct(total_duration, 20)
    IN  <<TimedStep("play", Pct(split_duration, 40)),
          TimedStep("wait", Pct(split_duration, 60)),
          TimedStep("play", slider_duration)>>
        \o AnimateScoreSteps(Pct(scoring_duration, 45))
        \o <<TimedStep("wait", Pct(scoring_duration, 5))>>
        \o AnimateScoreSteps(Pct(scoring_duration, 45))
        \o <<TimedStep("wait", Pct(scoring_duration, 5)),
             TimedStep("play", Pct(conclusion_duration, 60)),
             TimedStep("wait", Pct(conclusion_duration, 40)),
             TimedStep("play", 500)>>

\* construct enters the voiceover, whose tracker gives the duration.
BeginScale ==
    /\ scl_pc = "construct"
    /\ \E d \in ScaleDurations : scl_duration' = d
    /\ scl_pc' = "sequence"
    /\ UNCHANGED scl_steps

\* The next play or wait of the visual sequence.
IssueScaleStep ==
    /\ scl_pc = "sequence"
    /\ Len(scl_steps) < Len(ScaleSteps(scl_duration))
    /\ scl_steps' = Append(scl_steps, ScaleSteps(scl_duration)[Len(scl_steps) + 1])
    /\ UNCHANGED <<scl_pc, scl_duration>>

\* The visual sequence returns and the voiceover block is left.
EndScale ==
    /\ scl_pc = "sequence"
    /\ Len(scl_steps) = Len(ScaleSteps(scl_duration))
    /\ scl_pc' = "done"
    /\ UNCHANGED <<scl_duration, scl_steps>>

SclInit == IdleBut("none")
SclNext ==
    \/ BeginScale /\ Frame("scl")
    \/ IssueScaleStep /\ Frame("scl")
    \/ EndScale /\ Frame("scl")
SpecScale == SclInit /\ [][SclNext]_vars

RECURSIVE SumRunTimes(_)
\* The total run time of a sequence of steps.
SumRunTimes(steps) ==
    IF steps = <<>> THEN 0 ELSE Head(steps).run_time + SumRunTimes(Tail(steps))

\* C19: the run times of all play and wait steps issued by the section's
\* visual sequence, helpers included, sum to at most the voiceover
\* duration.
C19_SequenceWithinVoiceover ==
    scl_pc = "done" => SumRunTimes(scl_steps) <= scl_duration

(***************************************************************************)
(* CascadeText (src/videos/templates/animations.py).  The progress alpha   *)
(* is a whole number of steps out of AlphaSteps (alpha / AlphaSteps in     *)
(* [0, 1]); an opacity is in the same unit (AlphaSteps = fully visible).   *)
(* Comparisons with i / total_lines are made exactly, by cross             *)
(* multiplication.                                                         *)
(***************************************************************************)
MaxLines == 4
AlphaSteps == 24

\* A fade that lasts two segments, so that consecutive lines overlap.
LineOpacityOverlap(alpha, i, total_lines) ==
    IF alpha * total_lines < i * AlphaSteps THEN 0
    ELSE IF alpha * total_lines >= (i + 2) * AlphaSteps THEN AlphaSteps
    ELSE (alpha * total_lines - i * AlphaSteps) \div 2

\* The opacity interpolate_mobject gives line i (0-based) at alpha:
\* line_start = i / total_lines, line_end = (i + 1) / total_lines,
\* line_alpha = (alpha - line_start) / (line_end - line_start).
LineOpacity(alpha, i, total_lines) ==
    IF alpha * total_lines < i * AlphaSteps THEN 0
    ELSE IF alpha * total_lines >= (i + 1) * AlphaSteps THEN AlphaSteps
    ELSE alpha * total_lines - i * AlphaSteps

\* CascadeText(text_lines): every line starts invisible.
ConstructCascade ==
    /\ cas_pc = "new"
    /\ \E n \in 0..MaxLines : cas_lines' = [i \in 1..n |-> 0]
    /\ cas_pc' = "ready"
    /\ UNCHANGED cas_alpha

\* interpolate_mobject(alpha); with no lines it returns at once.
InterpolateMobject ==
    /\ cas_pc \in {"ready", "running"}
    /\ \E alpha \in 0..AlphaSteps :
          /\ cas_alpha' = alpha
          /\ cas_lines' = [i \in 1..Len(cas_lines) |->
                              LineOpacity(alpha, i - 1, Len(cas_lines))]
    /\ cas_pc' = "running"

CasInit == IdleBut("none")
CasNext ==
    \/ ConstructCascade /\ Frame("cas")
    \/ InterpolateMobject /\ Frame("cas")
SpecCascade == CasInit /\ [][CasNext]_vars

\* C21: CascadeText reveals lines strictly in order: at every alpha, every
\* line before a line that is at all visible has opacity 1 (so every line after
\* a line that is not fully visible has opacity 0), at most one line is
\* partially visible, all lines are at 0 when alpha = 0 and at 1 when alpha = 1.
C21_CascadeInOrder ==
    cas_pc = "running" =>
        /\ \A i \in 1..Len(cas_lines) : cas_lines[i] \in 0..AlphaSteps
        /\ \A i, j \in 1..Len(cas_lines) :
              (i < j /\ cas_lines[j] > 0) => cas_lines[i] = AlphaSteps
        /\ Cardinality({i \in 1..Len(cas_lines) :
                           0 < cas_lines[i] /\ cas_lines[i] < AlphaSteps}) <= 1
        /\ cas_alpha = 0 => \A i \in 1..Len(cas_lines) : cas_lines[i] = 0
        /\ cas_alpha = AlphaSteps => \A i \in 1..Len(cas_lines) : cas_lines[i] = AlphaSteps

\* Three lines, interpolated in the middle of the second line's segment:
\* the first is fully visible, the second partly, the third not at all.
C21_Witness ==
    /\ cas_pc = "running"
    /\ Len(cas_lines) = 3
    /\ cas_lines[1] = AlphaSteps
    /\ 0 < cas_lines[2] /\ cas_lines[2] < AlphaSteps
    /\ cas_lines[3] = 0

(***************************************************************************)
(* create_screen_edge_pulse and animate_screen_pulse                       *)
(* (src/videos/templates/effects.py).  Opacities are in hundredths, times  *)
(* in milliseconds.  FadeIn adds the group to the scene and ends in the    *)
(* group's own state; FadeOut ends with the group faded and removed.       *)
(***************************************************************************)
MaxPulses == 4
PulseDurations == {200, 300, 500, 1000}

\* A step that lasts the whole duration.
PulseRunTimeFull(duration) == duration

\* run_time = duration / 2
PulseRunTime(duration) == duration \div 2

\* create_screen_edge_pulse: top, bottom, left and right rectangles with
\* fill_opacity 0.8, then edges.set_opacity(0).
create_screen_edge_pulse ==
    LET edges == <<80, 80, 80, 80>>
    IN  [k \in 1..Len(edges) |-> 0]

CreateScreenEdgePulse ==
    /\ pls_pc = "new"
    /\ pls_in' \in [pulse_count : 0..MaxPulses, duration : PulseDurations]
    /\ pls_edges' = create_screen_edge_pulse
    /\ pls_pc' = "created"
    /\ UNCHANGED <<pls_steps, pls_shown>>

\* animate_screen_pulse: scene.play(FadeIn(edges, run_time=duration / 2))
PulseFadeIn ==
    /\ pls_pc = "created" \/ pls_pc = "faded_out"
    /\ Len(pls_steps) < 2 * pls_in.pulse_count
    /\ pls_steps' = Append(pls_steps,
          [op |-> "FadeIn", run_time |-> PulseRunTime(pls_in.duration)])
    /\ pls_shown' = TRUE
    /\ pls_pc' = "faded_in"
    /\ UNCHANGED <<pls_in, pls_edges>>

\* animate_screen_pulse: scene.play(FadeOut(edges, run_time=duration / 2))
PulseFadeOut ==
    /\ pls_pc = "faded_in"
    /\ pls_steps' = Append(pls_steps,
          [op |-> "FadeOut", run_time |-> PulseRunTime(pls_in.duration)])
    /\ pls_edges' = [k \in 1..Len(pls_edges) |-> 0]
    /\ pls_shown' = FALSE
    /\ pls_pc' = "faded_out"
    /\ UNCHANGED pls_in

\* The loop of animate_screen_pulse has run pulse_count times.
EndScreenPulse ==
    /\ pls_pc = "created" \/ pls_pc = "faded_out"
    /\ Len(pls_steps) = 2 * pls_in.pulse_count
    /\ pls_pc' = "done"
    /\ UNCHANGED <<pls_in, pls_edges, pls_steps, pls_shown>>

PlsInit == IdleBut("none")
PlsNext ==
    \/ CreateScreenEdgePulse /\ Frame("pls")
    \/ PulseFadeIn /\ Frame("pls")
    \/ PulseFadeOut /\ Frame("pls")
    \/ EndScreenPulse /\ Frame("pls")
SpecPulse == PlsInit /\ [][PlsNext]_vars

\* C22: create_screen_edge_pulse returns four edges all at opacity 0;
\* animate_screen_pulse with pulse_count = n plays exactly n FadeIn-then-
\* FadeOut pairs in strict alternation, each step with run time duration / 2,
\* the last step being a FadeOut, and the edges are invisible afterwards.
C22_PulseAlternatesAndEndsInvisible ==
    /\ pls_pc = "created" =>
          (Len(pls_edges) = 4 /\ \A k \in 1..4 : pls_edges[k] = 0)
    /\ pls_pc = "done" =>
          /\ Len(pls_steps) = 2 * pls_in.pulse_count
          /\ \A k \in 1..Len(pls_steps) :
                /\ pls_steps[k].op = (IF k % 2 = 1 THEN "FadeIn" ELSE "FadeOut")
                /\ 2 * pls_steps[k].run_time = pls_in.duration
          /\ pls_steps # <<>> => pls_steps[Len(pls_steps)].op = "FadeOut"
          /\ ~pls_shown
          /\ \A k \in 1..Len(pls_edges) : pls_edges[k] = 0

\* Three pulses of 0.3 s have been played: six steps of 0.15 s.
C22_Witness ==
    /\ pls_pc = "done"
    /\ pls_in = [pulse_count |-> 3, duration |-> 300]
    /\ Len(pls_steps) = 6
    /\ pls_steps[6] = [op |-> "FadeOut", run_time |-> 150]

(***************************************************************************)
(* LinearRegressionScene (src/videos/scenes/section3_linear.py).           *)
(* The points are the list loaded from the CSV file or generated; here any *)
(* list of up to MaxScenePoints points with whole coordinates.  Slopes and *)
(* intercepts are in thousandths.  The line's x range is -0.5 .. 10.5, so  *)
(* the x of a line endpoint is in halves and its y in 1/2000.  A mobject   *)
(* is <<kind, index>>; the screen holds the mobjects shown, and fading out *)
(* a group removes every member of it.                                     *)
(***************************************************************************)
MaxScenePoints == 3

\* axes.c2p(x, y) for Axes(x_range=[0, 11, 1], y_range=[0, 14, 2],
\* x_length=10, y_length=6): 10/11 of a scene unit per x unit and 6/14 per
\* y unit, from the axes' origin.  The result is in 1/11 and 1/7 of the
\* argument's units.
C2P(x, y) == <<10 * x, 3 * y>>

\* The points with y in thousandths, the unit of the line's predictions.
InThousandths(points) ==
    [k \in 1..Len(points) |-> [x |-> points[k].x, y |-> 1000 * points[k].y]]

\* The line through the slope and intercept at x = x2 / 2, in 1/2000.
LineY(slope, intercept, x2) == slope * x2 + 2 * intercept

\* _create_regression_line_mobject(regression, axes, (-0.5, 10.5)) for a
\* two-coefficient linear regression: Line(start, end).
RegressionLineMobject(regression) ==
    <<C2P(0 - 1, LineY(regression.coefficients[1], regression.coefficients[2], 0 - 1)),
      C2P(21, LineY(regression.coefficients[1], regression.coefficients[2], 21))>>

\* max(range(len(errors)), key=lambda i: abs(errors[i].residual)), as a
\* 1-based index: the first index among those that are largest.
MaxErrorIdx(errors) ==
    CHOOSE i \in 1..Len(errors) :
        /\ \A j \in 1..Len(errors) : Abs(Residual(errors[j])) <= Abs(Residual(errors[i]))
        /\ \A j \in 1..(i - 1) : Abs(Residual(errors[j])) < Abs(Residual(errors[i]))

\* Every bar, the outlier's included.
OtherBarsAll(n, max_error_idx) == [k \in 1..n |-> k]

\* [bar for i, bar in enumerate(error_bars) if i != max_error_idx], as the
\* sequence of the bars' indices.
OtherBars(n, max_error_idx) ==
    [k \in 1..(n - 1) |-> IF k < max_error_idx THEN k ELSE k + 1]

\* wiggle_offsets = [0.3, -0.2, 0.1, -0.05, 0.0]
WiggleOffsets == <<300, 0 - 200, 100, 0 - 50, 0>>

\* A wiggle whose last step stays off the optimum.
WiggleLineOff(regression, offset) ==
    LET new_slope == regression.coefficients[1] + offset + 50
    IN  <<C2P(0 - 1, LineY(new_slope, regression.coefficients[2], 0 - 1)),
          C2P(21, LineY(new_slope, regression.coefficients[2], 21))>>

\* One step of _animate_error_minimization: the line's start and end for
\* new_slope = optimal_slope + offset (1.0 and 1.0 are used when the
\* regression is not a two-coefficient linear one).
WiggleLine(regression, offset) ==
    LET is_standard_linear ==
            regression.line_type = "linear" /\ Len(regression.coefficients) = 2
        optimal_slope == IF is_standard_linear THEN regression.coefficients[1] ELSE 1000
        optimal_intercept == IF is_standard_linear THEN regression.coefficients[2] ELSE 1000
        new_slope == optimal_slope + offset
    IN  <<C2P(0 - 1, LineY(new_slope, optimal_intercept, 0 - 1)),
          C2P(21, LineY(new_slope, optimal_intercept, 21))>>

Dots(n) == {<<"dot", k>> : k \in 1..n}
Bars(n) == {<<"bar", k>> : k \in 1..n}

\* Phase 1: the points are loaded or generated and the axes are created.
BeginLinear ==
    /\ lin_pc = "construct"
    /\ lin_points' \in SeqsUpTo(FitPoints, MaxScenePoints)
    /\ lin_screen' = {Mob("axes")}
    /\ lin_pc' = "points"
    /\ UNCHANGED <<lin_regression, lin_created, lin_label, lin_line, lin_offsets>>

\* Phase 2: time_per_point = points_duration / len(point_mobjects) raises
\* ZeroDivisionError for an empty list; otherwise every dot is faded in.
ShowPoints ==
    /\ lin_pc = "points"
    /\ IF Len(lin_points) = 0
       THEN lin_pc' = "ZeroDivisionError" /\ UNCHANGED lin_screen
       ELSE lin_pc' = "line" /\ lin_screen' = lin_screen \cup Dots(Len(lin_points))
    /\ UNCHANGED <<lin_points, lin_regression, lin_created, lin_label, lin_line,
                   lin_offsets>>

\* Phase 3: the line is fitted and created over x in (-0.5, 10.5).
ShootLine ==
    /\ lin_pc = "line"
    /\ lin_regression' \in fit_linear_regression(lin_points)
    /\ lin_line' = RegressionLineMobject(lin_regression')
    /\ lin_screen' = lin_screen \cup {Mob("line")}
    /\ lin_pc' = "residual"
    /\ UNCHANGED <<lin_points, lin_created, lin_label, lin_offsets>>

\* Phase 4: the bar of the point with the largest error is created, zoomed
\* on and labelled RESIDUAL (ERROR).
ShowOutlier ==
    /\ lin_pc = "residual"
    /\ LET errors == create_error_bars(InThousandths(lin_points), lin_regression)
           max_error_idx == MaxErrorIdx(errors)
       IN  /\ lin_created' = <<max_error_idx>>
           /\ lin_label' = max_error_idx
           /\ lin_screen' = lin_screen \cup {<<"bar", max_error_idx>>, Mob("residual_label")}
    /\ lin_pc' = "others"
    /\ UNCHANGED <<lin_points, lin_regression, lin_line, lin_offsets>>

\* Phase 5, first step: the other bars are created.
ShowOtherBars ==
    /\ lin_pc = "others"
    /\ LET other_bars == OtherBars(Len(lin_points), lin_created[1])
       IN  /\ lin_created' = lin_created \o other_bars
           /\ lin_screen' = lin_screen
                 \cup {<<"bar", other_bars[k]>> : k \in 1..Len(other_bars)}
    /\ lin_pc' = "wiggle"
    /\ UNCHANGED <<lin_points, lin_regression, lin_label, lin_line, lin_offsets>>

\* _animate_error_minimization: the next offset of the wiggle is played.
Wiggle ==
    /\ lin_pc = "wiggle"
    /\ Len(lin_offsets) < Len(WiggleOffsets)
    /\ LET offset == WiggleOffsets[Len(lin_offsets) + 1]
       IN  /\ lin_line' = WiggleLine(lin_regression, offset)
           /\ lin_offsets' = Append(lin_offsets, offset)
    /\ UNCHANGED <<lin_pc, lin_points, lin_regression, lin_created, lin_label, lin_screen>>

\* Phase 6: FadeOut(VGroup(axes, point_mobjects, line, error_bars,
\* residual_label)).
FadeOutLinear ==
    /\ lin_pc = "wiggle"
    /\ Len(lin_offsets) = Len(WiggleOffsets)
    /\ lin_screen' = lin_screen \ ({Mob("axes"), Mob("line"), Mob("residual_label")}
                                     \cup Dots(Len(lin_points)) \cup Bars(Len(lin_points)))
    /\ lin_pc' = "done"
    /\ UNCHANGED <<lin_points, lin_regression, lin_created, lin_label, lin_line,
                   lin_offsets>>

LinInit == IdleBut("none")
LinNext ==
    \/ BeginLinear /\ Frame("lin")
    \/ ShowPoints /\ Frame("lin")
    \/ ShootLine /\ Frame("lin")
    \/ ShowOutlier /\ Frame("lin")
    \/ ShowOtherBars /\ Frame("lin")
    \/ Wiggle /\ Frame("lin")
    \/ FadeOutLinear /\ Frame("lin")
SpecLinear == LinInit /\ [][LinNext]_vars

\* The absolute error of point k against the fitted line, in thousandths.
AbsError(k) ==
    Abs(1000 * lin_points[k].y
        - (lin_regression.coefficients[1] * lin_points[k].x
           + lin_regression.coefficients[2]))

\* C23: the first error bar created, which is the one labelled RESIDUAL,
\* belongs to the point with the largest absolute residual, and every other
\* point's bar is created exactly once afterwards: none twice, none omitted.
C23_LargestResidualFirst ==
    /\ lin_pc \in {"others", "wiggle", "done"} =>
          /\ Len(lin_created) >= 1
          /\ lin_label = lin_created[1]
          /\ \A k \in 1..Len(lin_points) : AbsError(k) <= AbsError(lin_created[1])
    /\ lin_pc = "others" => Len(lin_created) = 1
    /\ lin_pc \in {"wiggle", "done"} =>
          /\ Len(lin_created) = Len(lin_points)
          /\ \A k \in 1..Len(lin_points) :
                Cardinality({j \in 1..Len(lin_created) : lin_created[j] = k}) = 1

\* Three points, the second one furthest from the fitted line: its bar was
\* created first, then the bars of the first and third points.
C23_Witness ==
    /\ lin_pc = "wiggle"
    /\ lin_points = <<[x |-> 0, y |-> 1], [x |-> 1, y |-> 0 - 1], [x |-> 2, y |-> 1]>>
    /\ lin_created = <<2, 1, 3>>

\* C24: the wiggle moves the line through slope offsets of strictly
\* shrinking magnitude whose signs alternate, and after its last step the
\* line's endpoints are those of the fitted line over x in [-0.5, 10.5].
C24_WiggleSettlesOnOptimum ==
    lin_pc \in {"wiggle", "done"} =>
        /\ \A k \in 1..(Len(lin_offsets) - 1) :
              /\ Abs(lin_offsets[k + 1]) < Abs(lin_offsets[k])
              /\ lin_offsets[k] * lin_offsets[k + 1] <= 0
        /\ Len(lin_offsets) = 5 =>
              LET m == lin_regression.coefficients[1]
                  b == lin_regression.coefficients[2]
              IN  /\ lin_offsets[5] = 0
                  /\ lin_line = <<C2P(0 - 1, 2 * b - m), C2P(21, 2 * b + 21 * m)>>

\* The wiggle has played its five steps on the line y = 2x - 1.
C24_Witness ==
    /\ lin_pc = "wiggle"
    /\ Len(lin_offsets) = 5
    /\ lin_regression.coefficients = <<2000, 0 - 1000>>
    /\ lin_line = <<<<0 - 10, 0 - 12000>>, <<210, 120000>>>>

\* ---------------------------------------------------------------------
\* Section 1: the standalone and the composed visual sequence
\* (videos/scenes/section1_hallucination.py)
\* ---------------------------------------------------------------------

\* The fields of the frozen dataclass ColorPalette and their values.
ColorPalette ==
    [BACKGROUND |-> "#0D0D0D", TEXT |-> "#F2F2F2", CYAN |-> "#00F0FF",
     RED |-> "#FF2A2A", GOLD |-> "#FFD700", GRID |-> "#404040",
     GREEN |-> "#00FF00", BROWN |-> "#8B6F47"]

\* COLORS.<name>: the field's value, or AttributeError when ColorPalette
\* has no such field.
GetColor(name) ==
    IF name \in DOMAIN ColorPalette THEN ColorPalette[name] ELSE "AttributeError"

\* The two sequences of the section.
Variants == {"standalone", "in_scene"}

\* The branch of the colour variation each fragment takes.  Both floods
\* seed random.Random(42) and draw uniform, random and (when the first
\* draw is at most 0.7) random again per fragment: "green" when the first
\* draw exceeds 0.7, "dull" when the second exceeds 0.5, else "plain".
ColorBranch ==
    <<"plain", "green", "green", "plain", "plain", "dull", "dull", "green",
      "plain", "plain", "green", "green", "dull", "dull", "green">>

\* The palette attribute fragment i's colour is read from.
TextColorName(variant, i) ==
    CASE ColorBranch[i] = "green" -> "GREEN"
      [] ColorBranch[i] = "dull" ->
            IF variant = "standalone" THEN "WARNING" ELSE "BROWN"
      [] OTHER -> "TEXT"

\* Building the text group raises when a fragment's colour cannot be read.
FloodRaises(variant) ==
    \E i \in 1..NumFragments : GetColor(TextColorName(variant, i)) = "AttributeError"

\* One step of a sequence: the operation, its run time, the object it acts
\* on and that object's colour.
SeqStep(op, run_time, target, color) ==
    [op |-> op, run_time |-> run_time, target |-> target, color |-> color]

\* Phase 1: the cursor fades in and blinks four times.
CursorSteps(cursor_duration) ==
    <<SeqStep("play", 500, Mob("cursor"), GetColor("GREEN"))>>
    \o [k \in 1..8 |->
          SeqStep("play", (cursor_duration - 500) \div 8, Mob("cursor"),
                  GetColor("GREEN"))]

\* Phase 2: every fragment is typed, with a pause between two fragments.
FloodSteps(variant, duration) ==
    LET time_per_line == duration \div NumFragments
    IN  [k \in 1..(2 * NumFragments - 1) |->
            IF k % 2 = 1
            THEN SeqStep("play", Pct(time_per_line, 80), <<"text", (k + 1) \div 2>>,
                         GetColor(TextColorName(variant, (k + 1) \div 2)))
            ELSE SeqStep("wait", Pct(time_per_line, 20), Mob("none"), "")]

\* Phases 3 and 4: the warning bounces in and is held, then everything
\* dissolves into static noise, which is held and faded out.
WarningAndDissolutionSteps(warning_duration, static_duration) ==
    <<SeqStep("play", 500, Mob("warning"), GetColor("RED")),
      SeqStep("wait", warning_duration - 500, Mob("none"), ""),
      SeqStep("add", 0, Mob("noise"), GetColor("TEXT")),
      SeqStep("play", Pct(static_duration, 40), Mob("noise"), GetColor("TEXT")),
      SeqStep("wait", Pct(static_duration, 30), Mob("none"), ""),
      SeqStep("play", Pct(static_duration, 30), Mob("noise"), GetColor("TEXT"))>>

\* The steps a sequence issues for total_duration: the flood builds its
\* text group before it plays anything, so nothing follows the cursor
\* when the group cannot be built.
VariantSteps(variant, total_duration) ==
    CursorSteps(Pct(total_duration, 20))
    \o IF FloodRaises(variant) THEN <<>>
       ELSE FloodSteps(variant, Pct(total_duration, 20))
            \o WarningAndDissolutionSteps(Pct(total_duration, 20),
                                          Pct(total_duration, 40))

\* How the sequence ends.
VariantOutcome(variant) ==
    IF FloodRaises(variant) THEN "AttributeError" ELSE "returned"

\* Both sequences are started with the same total_duration.
BeginVariants ==
    /\ var_pc = "construct"
    /\ \E d \in VoiceoverDurations : var_duration' = d
    /\ var_pc' = "sequence"
    /\ UNCHANGED <<var_steps, var_status>>

\* The next step of one of the two sequences.
IssueVariantStep ==
    /\ var_pc = "sequence"
    /\ \E v \in Variants :
          /\ var_status[v] = "running"
          /\ Len(var_steps[v]) < Len(VariantSteps(v, var_duration))
          /\ var_steps' = [var_steps EXCEPT
                ![v] = Append(@, VariantSteps(v, var_duration)[Len(@) + 1])]
    /\ UNCHANGED <<var_pc, var_duration, var_status>>

\* One of the two sequences returns or raises.
EndVariant ==
    /\ var_pc = "sequence"
    /\ \E v \in Variants :
          /\ var_status[v] = "running"
          /\ Len(var_steps[v]) = Len(VariantSteps(v, var_duration))
          /\ var_status' = [var_status EXCEPT ![v] = VariantOutcome(v)]
    /\ UNCHANGED <<var_pc, var_duration, var_steps>>

VarInit == IdleBut("none")
VarNext ==
    \/ BeginVariants /\ Frame("var")
    \/ IssueVariantStep /\ Frame("var")
    \/ EndVariant /\ Frame("var")
SpecVariants == VarInit /\ [][VarNext]_vars

\* C25: once the standalone and the composed sequence of section 1 have
\* both ended for the same total_duration, they have issued the same
\* steps: the same operations in the same order, on objects with the same
\* colours, with the same run times, and they ended the same way.
C25_SameStepsBothWays ==
    (\A v \in Variants : var_status[v] # "running") =>
        /\ var_steps["standalone"] = var_steps["in_scene"]
        /\ var_status["standalone"] = var_status["in_scene"]

\* C26: for every positive voiceover duration, every play and wait step
\* issued by the synthesis section's visual sequence has a strictly
\* positive run time.
C26_RunTimesPositive ==
    syn_duration > 0 =>
        \A i \in 1..Len(syn_steps) :
            syn_steps[i].op \in {"play", "wait"} => syn_steps[i].run_time > 0

\* ---------------------------------------------------------------------
\* The COLORS attributes read by the scenes and templates
\* ---------------------------------------------------------------------

\* The attribute names that follow "COLORS." in each module of
\* videos/scenes and videos/templates.
Section1Reads == {"TEXT", "GREEN", "WARNING", "RED", "BROWN"}
Section2Reads == {"CYAN", "GREEN", "GRID", "RED", "TEXT"}
Section3Reads == {"CYAN", "GRID", "RED", "TEXT"}
Section4Reads == {"CYAN", "GRID", "RED", "TEXT"}
Section5Reads == {"CYAN", "GOLD", "GRID"}
AnimationsReads == {"GOLD"}
CustomShapesReads == {"BACKGROUND", "CYAN", "GRID", "RED", "TEXT"}
EffectsReads == {"RED", "TEXT"}

PaletteReads ==
    [section1_hallucination |-> Section1Reads, section2_scale |-> Section2Reads,
     section3_linear |-> Section3Reads, section4_nonlinear |-> Section4Reads,
     section5_synthesis |-> Section5Reads, animations |-> AnimationsReads,
     custom_shapes |-> CustomShapesReads, effects |-> EffectsReads]

\* One of the modules starts running.
EnterModule ==
    /\ pal_module = ""
    /\ \E m \in DOMAIN PaletteReads : pal_module' = m
    /\ UNCHANGED <<pal_last, pal_seen, pal_status>>

\* The module evaluates one of its COLORS.<name> expressions: the value
\* is used, or the AttributeError ends the run.
ReadColor ==
    /\ pal_module # ""
    /\ pal_status = "ok"
    /\ \E name \in PaletteReads[pal_module] :
          /\ pal_last' = name
          /\ IF GetColor(name) = "AttributeError"
             THEN pal_status' = "AttributeError" /\ UNCHANGED pal_seen
             ELSE pal_seen' = pal_seen \cup {GetColor(name)} /\ UNCHANGED pal_status
    /\ UNCHANGED pal_module

PalInit == IdleBut("none")
PalNext ==
    \/ EnterModule /\ Frame("pal")
    \/ ReadColor /\ Frame("pal")
SpecPalette == PalInit /\ [][PalNext]_vars

\* C27: every colour attribute that scene and template code reads from
\* COLORS is a field of ColorPalette, so that no read raises.
C27_ReadsAreFields ==
    pal_last # "" => (pal_last \in DOMAIN ColorPalette /\ pal_status = "ok")

\* ---------------------------------------------------------------------
\* What each section's visual sequence puts on and takes off the screen
\* ---------------------------------------------------------------------

\* The doses of _generate_dose_response_data, in thousandths: one data
\* point, one dot and one error bar per dose.
DoseXValues ==
    <<500, 1000, 1500, 2000, 2500, 3000, 4000, 5000, 6000, 7000, 8000, 9000, 10000>>

\* n plays of step(k), k = 1..n.
PlayEach(n, step(_)) == [k \in 1..n |-> step(k)]

\* Section 1, either sequence: the standalone one stops after the cursor
\* steps when its text group cannot be built.
HallucinationSteps(variant, total_duration) ==
    IF FloodRaises(variant)
    THEN SubSeq(HallucinationStepsInScene(total_duration), 1,
                Len(CursorSteps(Pct(total_duration, 20))))
    ELSE HallucinationStepsInScene(total_duration)

\* Section 2: panes and divider fade in, the slider is created, the two
\* scores are animated, the conclusion is written, everything fades out.
ScaleScreenSteps(total_duration) ==
    LET timed == ScaleSteps(total_duration)
        panes == {Mob("left_pane"), Mob("right_pane"), Mob("divider")}
        adds == <<panes, {}, {Mob("slider_group")}, {}, {}, {}, {}, {}, {},
                  {Mob("conclusion")}, {}, {}>>
        all_content == panes \cup {Mob("slider_group"), Mob("conclusion")}
    IN  [k \in 1..Len(timed) |->
            Step(timed[k].op, timed[k].run_time, adds[k],
                 IF k = Len(timed) THEN all_content ELSE {})]

\* Section 4 with the bars left on screen while the line bends.
NonlinearScreenStepsKeepBars(total_duration) ==
    LET n == Len(DoseXValues)
        time_per_point == Pct(total_duration, 15) \div n
        linear_fail_duration == Pct(total_duration, 25)
        bend_duration == Pct(total_duration, 25)
        conclusion_duration == Pct(total_duration, 20)
        Dot(k) == Step("play", Pct(time_per_point, 80), {<<"dot", k>>}, {})
    IN  <<Step("play", Pct(total_duration, 15), {Mob("axes")}, {})>>
        \o PlayEach(n, Dot)
        \o <<Step("play", Pct(linear_fail_duration, 30), {Mob("line")}, {}),
             Step("play", Pct(linear_fail_duration, 40), Bars(n), {}),
             Step("wait", Pct(linear_fail_duration, 30), {}, {}),
             Step("play", Pct(bend_duration, 70), {}, {}),
             Step("wait", Pct(bend_duration, 30), {}, {}),
             Step("play", Pct(conclusion_duration, 50), {Mob("conclusion_text")}, {}),
             Step("wait", Pct(conclusion_duration, 20), {}, {}),
             Step("play", Pct(conclusion_duration, 30), {},
                  {Mob("axes"), Mob("line"), Mob("conclusion_text")} \cup Dots(n))>>

\* Section 3 for n data points of which the one at index outlier has the
\* largest residual: axes, the dots one by one, the line, the outlier's
\* bar, the zoom, the label, the other bars, the five wiggles, and the
\* fade-out of axes, dots, line, all bars and label.
LinearScreenSteps(total_duration, n, outlier) ==
    LET time_per_point == Pct(total_duration, 15) \div n
        residual_duration == Pct(total_duration, 25)
        wiggle_duration == Pct(total_duration, 20)
        time_per_wiggle == Pct(wiggle_duration, 70) \div Len(WiggleOffsets)
        Dot(k) == Step("play", Pct(time_per_point, 80), {<<"dot", k>>}, {})
        WiggleTo(k) == Step("play", time_per_wiggle, {Mob("line")}, {})
    IN  <<Step("play", Pct(total_duration, 15), {Mob("axes")}, {})>>
        \o PlayEach(n, Dot)
        \o <<Step("play", Pct(total_duration, 15), {Mob("line")}, {}),
             Step("play", Pct(residual_duration, 20), {<<"bar", outlier>>}, {}),
             Step("play", Pct(residual_duration, 20), {}, {}),
             Step("play", Pct(residual_duration, 30), {Mob("residual_label")}, {}),
             Step("wait", Pct(residual_duration, 30), {}, {}),
             Step("play", Pct(wiggle_duration, 30), Bars(n) \ {<<"bar", outlier>>}, {})>>
        \o PlayEach(Len(WiggleOffsets), WiggleTo)
        \o <<Step("play", Pct(total_duration, 10), {},
                  {Mob("axes"), Mob("line"), Mob("residual_label")}
                      \cup Dots(n) \cup Bars(n))>>

\* Section 4: axes, the dots one by one, the straight line, the error
\* bars, their fade-out while the line is transformed into the hill
\* curve, the conclusion text, and the fade-out of axes, dots, line and
\* text.
NonlinearScreenSteps(total_duration) ==
    LET n == Len(DoseXValues)
        time_per_point == Pct(total_duration, 15) \div n
        linear_fail_duration == Pct(total_duration, 25)
        bend_duration == Pct(total_duration, 25)
        conclusion_duration == Pct(total_duration, 20)
        Dot(k) == Step("play", Pct(time_per_point, 80), {<<"dot", k>>}, {})
    IN  <<Step("play", Pct(total_duration, 15), {Mob("axes")}, {})>>
        \o PlayEach(n, Dot)
        \o <<Step("play", Pct(linear_fail_duration, 30), {Mob("line")}, {}),
             Step("play", Pct(linear_fail_duration, 40), Bars(n), {}),
             Step("wait", Pct(linear_fail_duration, 30), {}, {}),
             Step("play", Pct(bend_duration, 70), {}, Bars(n)),
             Step("wait", Pct(bend_duration, 30), {}, {}),
             Step("play", Pct(conclusion_duration, 50), {Mob("conclusion_text")}, {}),
             Step("wait", Pct(conclusion_duration, 20), {}, {}),
             Step("play", Pct(conclusion_duration, 30), {},
                  {Mob("axes"), Mob("line"), Mob("conclusion_text")} \cup Dots(n))>>

\* Section 5: the glowing curve is created, shrunk to a wire and faded
\* out; the network is added and expanded; the judge text is written,
\* removed and added again inside its glowing group, which is pulsed and
\* held; network and glowing group fade out.
SynthesisScreenSteps(total_duration) ==
    LET isolate_duration == Pct(total_duration, 20)
        wire_duration == Pct(total_duration, 25)
        network_duration == Pct(total_duration, 30)
        judge_duration == Pct(total_duration, 25)
        glow_text == {Mob("judge_text"), Mob("judge_glow")}
    IN  <<Step("play", Pct(isolate_duration, 70), {Mob("curve_with_glow")}, {}),
          Step("wait", Pct(isolate_duration, 30), {}, {}),
          Step("play", Pct(wire_duration, 60), {}, {}),
          Step("wait", Pct(wire_duration, 40), {}, {}),
          Step("play", Pct(network_duration, 15), {}, {Mob("curve_with_glow")}),
          Step("add", 0, {Mob("full_network")}, {}),
          Step("play", Pct(network_duration, 65), {}, {}),
          Step("wait", Pct(network_duration, 20), {}, {}),
          Step("play", Pct(judge_duration, 40), {Mob("judge_text")}, {}),
          Step("remove", 0, {}, {Mob("judge_text")}),
          Step("add", 0, glow_text, {}),
          Step("play", Pct(judge_duration, 20), {}, {}),
          Step("play", Pct(judge_duration, 20), {}, {}),
          Step("wait", Pct(judge_duration, 20), {}, {}),
          Step("play", Pct(judge_duration, 0), {}, {Mob("full_network")} \cup glow_text)>>

\* The visual sequences: both of section 1 and the one of each other
\* section (the two of section 2 issue the same steps).
SequenceNames ==
    {"section1_standalone", "section1_in_scene", "section2_scale",
     "section3_linear", "section4_nonlinear", "section5_synthesis"}

\* The steps of the sequence q = [name, total_duration, n, outlier].
SectionSteps(q) ==
    CASE q.name = "section1_standalone" -> HallucinationSteps("standalone", q.total_duration)
      [] q.name = "section1_in_scene" -> HallucinationSteps("in_scene", q.total_duration)
      [] q.name = "section2_scale" -> ScaleScreenSteps(q.total_duration)
      [] q.name = "section3_linear" -> LinearScreenSteps(q.total_duration, q.n, q.outlier)
      [] q.name = "section4_nonlinear" -> NonlinearScreenSteps(q.total_duration)
      [] OTHER -> SynthesisScreenSteps(q.total_duration)

\* How the sequence ends.
SectionOutcome(q) ==
    IF q.name = "section1_standalone" THEN VariantOutcome("standalone") ELSE "returned"

\* construct enters the voiceover and calls the section's visual sequence
\* with the tracker's duration; section 3 has loaded or generated its
\* points, one of which has the largest residual.
BeginSection ==
    /\ sec_pc = "construct"
    /\ \E name \in SequenceNames, d \in VoiceoverDurations, n \in 1..MaxScenePoints :
         \E outlier \in 1..n :
            sec_seq' = [name |-> name, total_duration |-> d,
                        n |-> IF name = "section3_linear" THEN n ELSE 0,
                        outlier |-> IF name = "section3_linear" THEN outlier ELSE 0]
    /\ sec_pc' = "sequence"
    /\ UNCHANGED <<sec_i, sec_screen, sec_added>>

\* The next play, wait, add or remove of the sequence.
IssueSectionStep ==
    /\ sec_pc = "sequence"
    /\ sec_i < Len(SectionSteps(sec_seq))
    /\ LET step == SectionSteps(sec_seq)[sec_i + 1]
       IN  /\ sec_screen' = (sec_screen \cup step.adds) \ step.removes
           /\ sec_added' = sec_added \cup step.adds
    /\ sec_i' = sec_i + 1
    /\ UNCHANGED <<sec_pc, sec_seq>>

\* The sequence returns, or raises.
EndSection ==
    /\ sec_pc = "sequence"
    /\ sec_i = Len(SectionSteps(sec_seq))
    /\ sec_pc' = SectionOutcome(sec_seq)
    /\ UNCHANGED <<sec_seq, sec_i, sec_screen, sec_added>>

SecInit == IdleBut("none")
SecNext ==
    \/ BeginSection /\ Frame("sec")
    \/ IssueSectionStep /\ Frame("sec")
    \/ EndSection /\ Frame("sec")
SpecSections == SecInit /\ [][SecNext]_vars

====
